---- MODULE Spec2Model ----
(***************************************************************************)
(* A model of better_tactics: the spaced-repetition card (src/src/srs.rs), *)
(* the rating guard (src/src/services/user_service.rs) and the review and  *)
(* skip handlers (src/src/api/tactics.rs) over the stored user, cards,     *)
(* reviews and skipped puzzles.                                            *)
(*                                                                         *)
(* Representation.                                                         *)
(*  - A chrono::Duration is a whole number of minutes.  Every Duration the *)
(*    code builds is a whole number of seconds; the constants of srs.rs    *)
(*    are whole minutes, and the model truncates a product to a whole      *)
(*    minute where the code truncates it to a whole second.                *)
(*  - A DateTime is a record [m, ms]: whole minutes since a local midnight *)
(*    and the milliseconds inside that minute (0..59999), so that instants *)
(*    less than a second apart are distinct.                               *)
(*  - An f64 ease is a whole number of hundredths (2.5 is 250).  Binary    *)
(*    rounding of f64 is not modelled.                                     *)
(*                                                                         *)
(* Specifications.                                                         *)
(*  - Spec: the review, skip and random-puzzle handlers over the store.    *)
(*  - SpecCard: Card::review on one card, from any stored card.            *)
(*  - SpecDay: the clock, the day end and Card::is_due.                    *)
(*  - SpecQueue: get_next_review over stored cards.                        *)
(*  - SpecWrites: review handlers running concurrently, one database       *)
(*    statement at a time, any of which may fail or be dropped.            *)
(*  - SpecScenario: one review of a fresh and of a mature card.            *)
(*  - SpecSerial: the review handlers of SpecWrites, one at a time.        *)
(*  - SpecRating: Rating::update over rating periods without games.        *)
(*  - SpecUser: UserService::update_rating and reset_user_rating.          *)
(*  - SpecStats: the stats, forecast and rating-history queries.           *)
(*  - SpecFrame: the handlers of Spec with the read-only queries.          *)
(*  - SpecSample, SpecSampleFair: get_random_puzzle, one attempt a step.   *)
(*  - SpecBackup: run_backup as the clock advances.                        *)
(*  - SpecImport: import_lichess_database, one record a step.              *)
(*  - SpecLock: update_rating and reset_user_rating under the db lock.     *)
(***************************************************************************)
EXTENDS Integers, Sequences, FiniteSets, TLC

VARIABLES
    srs_config,   \* AppConfig.srs, fixed at start-up
    now,          \* the clock (TimeProvider::now_local)
    card,         \* the Card last reviewed or probed
    before,       \* the Card as it was before the last Card::review, or NoCard
    score,        \* the Difficulty of the last Card::review, or NoScore
    user,         \* the users row: rating (rating, deviation, volatility), next_puzzle
    cards,        \* the cards table: puzzle id -> Card or NoCard
    reviews,      \* the reviews table, in insertion order
    skipped,      \* the skipped_puzzles table, in insertion order
    last,         \* what the last handler was given, saw and answered
    tasks         \* the review handlers suspended at an await, with their locals

vars == <<srs_config, now, card, before, score, user, cards, reviews, skipped, last,
          tasks>>

Min(a, b) == IF a <= b THEN a ELSE b
Max(a, b) == IF a >= b THEN a ELSE b

NoCard == [id |-> "none"]
NoScore == "none"

-----------------------------------------------------------------------------
(* Bounds of the model.                                                    *)

\* Card::review calls made on the card under review.
MaxReviews == 3
\* Days the clock of SpecDay covers.
MaxDays == 2

-----------------------------------------------------------------------------
(* srs.rs: constants, SrsConfig, Difficulty.                               *)

MinutesPerDay == 24 * 60

\* lazy_static INITIAL_INTERVALS: 10 minutes, 24 hours.
INITIAL_INTERVALS == <<10, 24 * 60>>

\* Duration::weeks(52179).
MAX_INTERVAL == 52179 * 7 * 24 * 60

\* Duration::days(4).
MIN_EASY_INTERVAL == 4 * 24 * 60

Difficulty == {"Again", "Hard", "Good", "Easy"}

\* SrsConfig::default().
DefaultSrsConfig ==
    [default_ease |-> 250, minimum_ease |-> 130, easy_bonus |-> 130,
     day_end_hour |-> 4, review_order |-> "DueTime"]

\* TLC's integers are 32 bits wide and the code's are 64: a product
\* beyond SatLimit is reported as SatLimit.  Every caller clamps the product
\* to MAX_INTERVAL, which is below SatLimit.
SatLimit == 2 * MAX_INTERVAL

\* Card::mul_duration with the multiplier num / den: the product truncated.
MulDuration(duration, num, den) ==
    LET q == duration \div den
        r == duration % den
    IN  IF num > 0 /\ q > SatLimit \div num
        THEN SatLimit
        ELSE Min(q * num + (r * num) \div den, SatLimit)

\* Card::in_learning.
InLearning(c) ==
    /\ c.learning_stage < Len(INITIAL_INTERVALS)
    /\ c.interval <= INITIAL_INTERVALS[c.learning_stage + 1]

\* A faulty Again: no interval at all.
NextIntervalAgain_Zero(c) == 0

\* A faulty Again: the interval of the card is kept.
NextIntervalAgain_Keeps(c) == c.interval

\* Card::next_interval, score == Again.
NextIntervalAgain(c) == INITIAL_INTERVALS[1]

\* A faulty Hard: the interval of the card as it is, not clamped.
NextIntervalHard_Unclamped(c) == c.interval

\* Card::next_interval, score == Hard.
NextIntervalHard(c) ==
    Max(Min(c.interval, MAX_INTERVAL), NextIntervalAgain(c))

\* A faulty Good: the interval of a card in learning grows by its ease.
NextIntervalGood_Grows(c) ==
    Max(Min(Max(MulDuration(c.interval, c.ease, 100),
                INITIAL_INTERVALS[Len(INITIAL_INTERVALS)]),
            MAX_INTERVAL),
        NextIntervalHard(c))

\* A faulty Good: a card in learning gets the learning step after its own.
NextIntervalGood_NextStep(c) ==
    IF InLearning(c)
    THEN INITIAL_INTERVALS[Min(c.learning_stage + 2, Len(INITIAL_INTERVALS))]
    ELSE Max(Min(Max(MulDuration(c.interval, c.ease, 100),
                     INITIAL_INTERVALS[Len(INITIAL_INTERVALS)]),
                 MAX_INTERVAL),
             NextIntervalHard(c))

\* Card::next_interval, score == Good.
NextIntervalGood(c) ==
    IF InLearning(c)
    THEN INITIAL_INTERVALS[c.learning_stage + 1]
    ELSE Max(Min(Max(MulDuration(c.interval, c.ease, 100),
                     INITIAL_INTERVALS[Len(INITIAL_INTERVALS)]),
                 MAX_INTERVAL),
             NextIntervalHard(c))

\* A faulty Easy: the product is not capped at MAX_INTERVAL.
NextIntervalEasy_NoCap(c) ==
    Max(Max(MulDuration(c.interval, c.ease * c.srs_config.easy_bonus, 10000),
            MIN_EASY_INTERVAL),
        NextIntervalGood(c))

\* Card::next_interval, score == Easy.
NextIntervalEasy(c) ==
    Max(Min(Max(MulDuration(c.interval, c.ease * c.srs_config.easy_bonus, 10000),
                MIN_EASY_INTERVAL),
            MAX_INTERVAL),
        NextIntervalGood(c))

\* Card::next_interval.
NextInterval(c, s) ==
    CASE s = "Again" -> NextIntervalAgain(c)
      [] s = "Hard"  -> NextIntervalHard(c)
      [] s = "Good"  -> NextIntervalGood(c)
      [] s = "Easy"  -> NextIntervalEasy(c)

\* DateTime + Duration.
DtAdd(dt, duration) == [m |-> dt.m + duration, ms |-> dt.ms]

\* A faulty learning stage: Again is treated as the grades that pass.
ReviewLearningStage_NoReset(c, s) ==
    IF InLearning(c)
    THEN IF s = "Easy" THEN Len(INITIAL_INTERVALS) ELSE c.learning_stage + 1
    ELSE c.learning_stage

\* A faulty learning stage: every grade but Again advances it, in learning
\* or not.
ReviewLearningStage_AlwaysAdvances(c, s) ==
    IF s = "Again" THEN 0 ELSE c.learning_stage + 1

\* A faulty learning stage: Hard keeps the stage of a card in learning.
ReviewLearningStage_HardStays(c, s) ==
    IF s = "Again" THEN 0
    ELSE IF InLearning(c)
         THEN CASE s = "Easy" -> Len(INITIAL_INTERVALS)
                [] s = "Hard" -> c.learning_stage
                [] OTHER      -> c.learning_stage + 1
         ELSE c.learning_stage

\* Card::review, the learning stage after the interval has been updated.
ReviewLearningStage(c, s) ==
    IF s = "Again" THEN 0
    ELSE IF InLearning(c)
         THEN IF s = "Easy" THEN Len(INITIAL_INTERVALS) ELSE c.learning_stage + 1
         ELSE c.learning_stage

\* A faulty ease: no floor at minimum_ease.
ReviewEase_NoFloor(c, s) ==
    CASE s = "Again" -> c.ease - 20
      [] s = "Hard"  -> c.ease - 15
      [] s = "Easy"  -> c.ease + 15
      [] s = "Good"  -> IF c.ease < c.srs_config.default_ease
                        THEN Min(c.srs_config.default_ease, c.ease + 15)
                        ELSE c.ease

\* A faulty ease: Good adds 0.15 whatever the ease is.
ReviewEase_GoodUncapped(c, s) ==
    Max(c.srs_config.minimum_ease,
        CASE s = "Again" -> c.ease - 20
          [] s = "Hard"  -> c.ease - 15
          [] s = "Easy"  -> c.ease + 15
          [] s = "Good"  -> c.ease + 15)

\* Card::review, the ease.
ReviewEase(c, s) ==
    Max(c.srs_config.minimum_ease,
        CASE s = "Again" -> c.ease - 20
          [] s = "Hard"  -> c.ease - 15
          [] s = "Easy"  -> c.ease + 15
          [] s = "Good"  -> IF c.ease < c.srs_config.default_ease
                            THEN Min(c.srs_config.default_ease, c.ease + 15)
                            ELSE c.ease)

\* A faulty review: review_count is not raised.
Review_CountKept(c, time_now, s) ==
    LET interval == NextInterval(c, s)
        c1 == [c EXCEPT !.interval = interval, !.due = DtAdd(time_now, interval)]
        c2 == [c1 EXCEPT !.learning_stage = ReviewLearningStage(c1, s)]
    IN  [c2 EXCEPT !.ease = ReviewEase(c2, s)]

\* Card::review: the card after the review.
Review(c, time_now, s) ==
    LET interval == NextInterval(c, s)
        c1 == [c EXCEPT !.interval = interval, !.due = DtAdd(time_now, interval)]
        c2 == [c1 EXCEPT !.learning_stage = ReviewLearningStage(c1, s)]
        c3 == [c2 EXCEPT !.ease = ReviewEase(c2, s)]
    IN  [c3 EXCEPT !.review_count = @ + 1]

\* Card::new.
NewCard(id, due_time, config) ==
    [id |-> id, due |-> due_time, interval |-> INITIAL_INTERVALS[1],
     review_count |-> 0, ease |-> config.default_ease, learning_stage |-> 0,
     srs_config |-> config]

-----------------------------------------------------------------------------
(* Instants, the day end and Card::is_due.                                 *)

MsPerMinute == 60 * 1000

DtLess(a, b) == a.m < b.m \/ (a.m = b.m /\ a.ms < b.ms)
DtLeq(a, b) == a = b \/ DtLess(a, b)

\* The instant k milliseconds after dt (before it when k is negative).
DtShiftMs(dt, k) ==
    [m |-> dt.m + (dt.ms + k) \div MsPerMinute, ms |-> (dt.ms + k) % MsPerMinute]

\* DateTime - DateTime, a Duration in milliseconds.
DtSub(a, b) == (a.m - b.m) * MsPerMinute + (a.ms - b.ms)

\* Duration::num_seconds: the whole seconds of a Duration, fraction dropped.
NumSeconds(ms) == IF ms >= 0 THEN ms \div 1000 ELSE -((-ms) \div 1000)

\* DateTime::time as the pair (minute of the day, milliseconds).
TimeOfDay(dt) == [m |-> dt.m % MinutesPerDay, ms |-> dt.ms]

\* NaiveTime::from_hms_opt(hour, 0, 0) as the same pair.
HourOfDay(hour) == [m |-> hour * 60, ms |-> 0]

\* util::next_time_after(datetime, time): today's `time` if the time of day
\* of datetime is before it, else tomorrow's.
NextTimeAfter(dt, time) ==
    LET today == [m |-> (dt.m \div MinutesPerDay) * MinutesPerDay + time.m,
                  ms |-> time.ms]
    IN  IF DtLess(TimeOfDay(dt), time) THEN today ELSE DtAdd(today, MinutesPerDay)

\* A faulty day end: always day_end_hour of the next day.
DayEndDatetime_Tomorrow(config, t) ==
    [m |-> (t.m \div MinutesPerDay + 1) * MinutesPerDay + config.day_end_hour * 60,
     ms |-> 0]

\* SrsConfig::day_end_datetime with TP::now_local() == t.  Instants are local
\* wall-clock times; fixed_offset() keeps the instant.
DayEndDatetime(config, t) == NextTimeAfter(t, HourOfDay(config.day_end_hour))

\* Card::is_due with TP::now_local() == t.
IsDue(c, t) ==
    LET due_time == DayEndDatetime(c.srs_config, t)
    IN  NumSeconds(DtSub(c.due, due_time)) <= 0

-----------------------------------------------------------------------------
(* The stored rows at start-up (db.rs, init_schema).                       *)

NoPuzzle == "none"

\* The puzzle ids a request may carry: p1 and p2 are rows of the puzzles
\* table, px is not.
RequestIds == {"p1", "p2", "px"}

\* INSERT INTO users ... VALUES ('local', 500, 250, 0.06).  The volatility
\* is in hundredths; a recomputed volatility is a different number.
InitUser ==
    [rating |-> [rating |-> 500, deviation |-> 250, volatility |-> 6],
     next_puzzle |-> NoPuzzle]

Midnight == [m |-> 0, ms |-> 0]

NoRequest == [op |-> "none"]

\* The request-handling tasks that may run at the same time.
TaskIds == {"t1", "t2"}

\* A task that handles no request.
Idle == [pc |-> "idle"]

\* No handler is suspended, and no request was received.
NoTasks == [received |-> 0, run |-> [t \in TaskIds |-> Idle]]

StoreInit ==
    /\ user = InitUser
    /\ cards = [p \in RequestIds |-> NoCard]
    /\ reviews = <<>>
    /\ skipped = <<>>
    /\ last = NoRequest
    /\ tasks = NoTasks

StoreVars == <<user, cards, reviews, skipped, last, tasks>>

-----------------------------------------------------------------------------
(* The puzzles table, the rating and the user row.                         *)

NoPuzzleRow == [id |-> NoPuzzle]

\* The rows of the puzzles table: p1 is rated below the user's first rating
\* and p2 above it.
Puzzles ==
    { [id |-> "p1", rating |-> 400, rating_deviation |-> 80],
      [id |-> "p2", rating |-> 600, rating_deviation |-> 80] }

\* PuzzleDatabase::get_puzzle_by_id.
GetPuzzleById(id) ==
    IF \E p \in Puzzles : p.id = id
    THEN CHOOSE p \in Puzzles : p.id = id
    ELSE NoPuzzleRow

\* TacticsService::get_puzzle_and_card_by_puzzle_id: the puzzle and its card.
GetPuzzleAndCard(table, id) ==
    [puzzle |-> GetPuzzleById(id), card |-> table[id]]

\* Difficulty::from_i64.
DifficultyFromI64(value) ==
    CASE value = 0 -> "Again"
      [] value = 1 -> "Hard"
      [] value = 2 -> "Good"
      [] value = 3 -> "Easy"
      [] OTHER     -> "Err"

\* Difficulty::score, in hundredths.
DifficultyScore(d) ==
    CASE d = "Again" -> 0
      [] d = "Hard"  -> 50
      [] d = "Good"  -> 66
      [] d = "Easy"  -> 100

\* The steps by which one game moves the rating and the deviation.
RatingStep == 8
DevStep == 10

\* Rating::update(vec![result]).  The Glicko-2 arithmetic is in f64 and is
\* not computed here: the operator gives every rating the update may compute.
\* A loss (score 0) never raises the rating; for the other scores the result
\* may be lower, equal or higher (the expected score depends on both ratings,
\* and the result is truncated to an integer).  A game shrinks the deviation,
\* and the volatility is recomputed.
RatingUpdate(r, result) ==
    { [rating |-> r.rating + delta, deviation |-> r.deviation - DevStep,
       volatility |-> r.volatility + 1] :
        delta \in IF result.score = 0 THEN {-RatingStep, 0}
                  ELSE {-RatingStep, 0, RatingStep} }

\* PuzzleDatabase::update_user: the UPDATE sets rating and rating_deviation.
UpdateUser(row, u) ==
    [row EXCEPT !.rating.rating = u.rating.rating,
                !.rating.deviation = u.rating.deviation]

\* A faulty test: every computed rating is written.
RatingIsWritten_Always(difficulty, computed, old_rating) == TRUE

\* The test of UserService::update_rating: is the computed rating written?
RatingIsWritten(difficulty, computed, old_rating) ==
    difficulty # "Good" \/ computed.rating > old_rating.rating

\* UserService::update_rating with the rating Rating::update computed: the
\* users row afterwards.
UpdateRating(row, difficulty, computed) ==
    IF RatingIsWritten(difficulty, computed, row.rating)
    THEN UpdateUser(row, [row EXCEPT !.rating = computed])
    ELSE row

\* UserService::update_rating as api::tactics::review calls it: the rating it
\* returns is the rating of the users row after the update.
UpdateRatingReturns(row_after) == row_after.rating

\* A faulty review row: no rating snapshot is stored.
ReviewRow_NoSnapshot(id, difficulty, date, user_rating) ==
    [user_id |-> "local", puzzle_id |-> id, difficulty |-> difficulty, date |-> date,
     user_rating |-> -1]

\* TacticsService::apply_review: the Review it adds, with
\* user_rating: Some(user_rating.rating).
ReviewRow(id, difficulty, date, user_rating) ==
    [user_id |-> "local", puzzle_id |-> id, difficulty |-> difficulty, date |-> date,
     user_rating |-> user_rating.rating]

\* UserService::set_user_next_puzzle.
SetUserNextPuzzle(row, id) == [row EXCEPT !.next_puzzle = id]

\* The GameResult the handlers build from a puzzle and a grade.
GameResult(puzzle, difficulty) ==
    [rating |-> puzzle.rating, deviation |-> puzzle.rating_deviation,
     score |-> DifficultyScore(difficulty)]

NoRating == [rating |-> -1]

-----------------------------------------------------------------------------
(* Spec: the review, skip and random-puzzle handlers over the store.       *)

\* Review rows and skipped puzzles recorded.
MaxStoredReviews == 1
MaxSkips == 1

\* The difficulty a request carries: the four grades and a value that is not
\* a grade.
RequestDifficulties == 0 .. 4

\* The review_count a request carries.
RequestCounts == 0 .. MaxStoredReviews

\* The (difficulty, update_rating) of a skip request: Again, Good and a value
\* that is not a grade.  The difficulty is read only when update_rating is
\* set.
RequestSkips == { <<0, TRUE>>, <<2, TRUE>>, <<4, TRUE>>, <<0, FALSE>> }

\* The (min_rating, max_rating) of a random-puzzle request.
RequestRatings == { <<0, 450>>, <<0, 2000>>, <<700, 800>>, <<500, 450>> }

Init ==
    /\ srs_config = DefaultSrsConfig
    /\ now = Midnight
    /\ card = NoCard
    /\ before = NoCard
    /\ score = NoScore
    /\ StoreInit

\* Time passes: a day.
Tick ==
    /\ now.m < (MaxDays - 1) * MinutesPerDay
    /\ now' = DtAdd(now, MinutesPerDay)
    /\ UNCHANGED <<srs_config, card, before, score>>
    /\ UNCHANGED StoreVars

\* A faulty comparison: every review_count is accepted.
ReviewCountMatches_Always(c, request_count) == TRUE

\* api::tactics::review: does the request carry the review_count of the card?
ReviewCountMatches(c, request_count) == c.review_count = request_count

\* A faulty review: the saved next puzzle is kept.
ClearSavedPuzzle_Never(row, id) == row

\* api::tactics::review: the saved next puzzle is cleared when it is the
\* puzzle of the request.
ClearSavedPuzzle(row, id) ==
    IF row.next_puzzle = id THEN SetUserNextPuzzle(row, NoPuzzle) ELSE row

\* The review_count of the stored card, 0 when there is none.
StoredReviewCount(table, id) ==
    IF table[id] = NoCard THEN 0 ELSE table[id].review_count

\* A faulty write: the card replaces the table.
UpdateOrCreateCard_ReplacesAll(table, c) ==
    [p \in DOMAIN table |-> IF p = c.id THEN c ELSE NoCard]

\* PuzzleDatabase::update_or_create_card: INSERT OR REPLACE INTO cards, the
\* row of the card's puzzle_id written and no other.
UpdateOrCreateCard(table, c) == [table EXCEPT ![c.id] = c]

\* POST /api/tactics/review (api::tactics::review), with
\* TacticsService::apply_review.
ApiReview(id, d, rc) ==
    LET difficulty == DifficultyFromI64(d)
        request == [id |-> id, difficulty |-> d, review_count |-> rc]
        u1 == ClearSavedPuzzle(user, id)
        found == GetPuzzleAndCard(cards, id)
        c == IF found.card = NoCard THEN NewCard(id, now, srs_config) ELSE found.card
        seen == [op |-> "review", request |-> request,
                 was_saved |-> (user.next_puzzle = id)]
    IN  /\ (difficulty # "Err" /\ found.puzzle # NoPuzzleRow /\ ReviewCountMatches(c, rc))
               => Len(reviews) < MaxStoredReviews
        /\ IF difficulty = "Err"
           THEN /\ last' = seen @@
                           [response |-> "InvalidParameter", rated |-> FALSE,
                            grade |-> NoScore, computed |-> NoRating, written |-> FALSE]
                /\ UNCHANGED <<user, cards, reviews, card, before, score>>
           ELSE IF found.puzzle = NoPuzzleRow
           THEN /\ user' = u1
                /\ last' = seen @@
                           [response |-> "InternalError", rated |-> FALSE,
                            grade |-> NoScore, computed |-> NoRating, written |-> FALSE]
                /\ UNCHANGED <<cards, reviews, card, before, score>>
           ELSE IF ~ReviewCountMatches(c, rc)
           THEN /\ user' = u1
                /\ last' = seen @@
                           [response |-> "Ok", rated |-> FALSE,
                            grade |-> NoScore, computed |-> NoRating, written |-> FALSE]
                /\ UNCHANGED <<cards, reviews, card, before, score>>
           ELSE \E computed \in RatingUpdate(u1.rating, GameResult(found.puzzle, difficulty)) :
                    LET u2 == UpdateRating(u1, difficulty, computed)
                        reviewed == Review(c, now, difficulty)
                    IN  /\ user' = u2
                        /\ cards' = UpdateOrCreateCard(cards, reviewed)
                        /\ reviews' = Append(reviews,
                               ReviewRow(id, difficulty, now, UpdateRatingReturns(u2)))
                        /\ card' = reviewed
                        /\ before' = c
                        /\ score' = difficulty
                        /\ last' = seen @@
                               [response |-> "Ok", rated |-> TRUE,
                                grade |-> difficulty, computed |-> computed,
                                written |-> RatingIsWritten(difficulty, computed, u1.rating)]
        /\ UNCHANGED <<srs_config, now, skipped, tasks>>

\* POST /api/tactics/skip_next (api::tactics::skip_next), with
\* TacticsService::skip_puzzle.
ApiSkipNext(id, d, update_rating) ==
    LET difficulty == DifficultyFromI64(d)
        request == [id |-> id, difficulty |-> d, update_rating |-> update_rating]
        puzzle == GetPuzzleById(user.next_puzzle)
        seen == [op |-> "skip", request |-> request]
        unrated == [rated |-> FALSE, grade |-> NoScore, computed |-> NoRating,
                    written |-> FALSE]
    IN  /\ (user.next_puzzle = id /\ puzzle # NoPuzzleRow) => Len(skipped) < MaxSkips
        /\ IF user.next_puzzle = NoPuzzle \/ user.next_puzzle # id
           THEN /\ last' = seen @@ [response |-> "Ok"] @@ unrated
                /\ UNCHANGED <<user, skipped>>
           ELSE IF puzzle = NoPuzzleRow
           THEN /\ user' = SetUserNextPuzzle(user, NoPuzzle)
                /\ last' = seen @@ [response |-> "Ok"] @@ unrated
                /\ UNCHANGED skipped
           ELSE /\ skipped' = Append(skipped,
                      [user_id |-> "local", puzzle_id |-> puzzle.id, date |-> now])
                /\ IF ~update_rating
                   THEN /\ user' = SetUserNextPuzzle(user, NoPuzzle)
                        /\ last' = seen @@ [response |-> "Ok"] @@ unrated
                   ELSE IF difficulty = "Err"
                   THEN /\ user' = user
                        /\ last' = seen @@ [response |-> "InvalidParameter"] @@ unrated
                   ELSE \E computed \in RatingUpdate(user.rating, GameResult(puzzle, difficulty)) :
                        /\ user' = SetUserNextPuzzle(UpdateRating(user, difficulty, computed),
                                                     NoPuzzle)
                        /\ last' = seen @@
                               [response |-> "Ok", rated |-> TRUE,
                                grade |-> difficulty, computed |-> computed,
                                written |-> RatingIsWritten(difficulty, computed, user.rating)]
        /\ UNCHANGED <<srs_config, now, card, before, score, cards, reviews, tasks>>

\* i64::clamp.
Clamp(value, lo, hi) == IF value < lo THEN lo ELSE IF value > hi THEN hi ELSE value

\* PuzzleDatabase::get_min_puzzle_rating, get_max_puzzle_rating.
MinPuzzleRating == CHOOSE r \in {p.rating : p \in Puzzles} : \A p \in Puzzles : r <= p.rating
MaxPuzzleRating == CHOOSE r \in {p.rating : p \in Puzzles} : \A p \in Puzzles : r >= p.rating

\* A faulty query: no upper end of the window.
GetPuzzlesByRating_NoMax(min_rating, max_rating) ==
    { p \in Puzzles : p.rating >= min_rating }

\* PuzzleDatabase::get_puzzles_by_rating(min, max, 1): the rows one of which
\* ORDER BY random() LIMIT 1 returns.
GetPuzzlesByRating(min_rating, max_rating) ==
    { p \in Puzzles : p.rating >= min_rating /\ p.rating <= max_rating }

NEW_RETRY_COUNT == 5

\* TacticsService::get_random_puzzle from its retry-th attempt on: every
\* (puzzle, card) the loop may end with.
RECURSIVE RandomPuzzleFrom(_, _, _, _)
RandomPuzzleFrom(table, min_rating, max_rating, retry) ==
    LET rows == GetPuzzlesByRating(min_rating, max_rating)
    IN  IF rows = {}
        THEN { [puzzle |-> NoPuzzleRow, card |-> NoCard] }
        ELSE UNION { IF table[p.id] = NoCard \/ retry + 1 >= NEW_RETRY_COUNT
                     THEN { [puzzle |-> p, card |-> table[p.id]] }
                     ELSE RandomPuzzleFrom(table, min_rating, max_rating, retry + 1)
                     : p \in rows }

\* TacticsService::get_random_puzzle.
GetRandomPuzzle(table, min_rating, max_rating) ==
    RandomPuzzleFrom(table,
                     Clamp(min_rating, MinPuzzleRating, MaxPuzzleRating),
                     Clamp(max_rating, MinPuzzleRating, MaxPuzzleRating), 0)

\* A faulty test: the saved puzzle is never returned again.
SavedPuzzleIsNew_Never(saved) == FALSE

\* api::tactics::random_puzzle: the saved next puzzle exists and has no card.
SavedPuzzleIsNew(saved) == saved.puzzle # NoPuzzleRow /\ saved.card = NoCard

\* GET /api/tactics/random/:min/:max (api::tactics::random_puzzle).
\* A faulty random_puzzle: the sampled puzzle is not saved.
SaveSampledPuzzle_Never(row, puzzle) == row

\* api::tactics::random_puzzle: a sampled puzzle is saved as the next puzzle;
\* nothing is written when no puzzle was sampled.
SaveSampledPuzzle(row, puzzle) ==
    IF puzzle # NoPuzzleRow THEN SetUserNextPuzzle(row, puzzle.id) ELSE row

ApiRandomPuzzle(min_rating, max_rating) ==
    LET saved == IF user.next_puzzle = NoPuzzle
                 THEN [puzzle |-> NoPuzzleRow, card |-> NoCard]
                 ELSE GetPuzzleAndCard(cards, user.next_puzzle)
        seen == [op |-> "random", request |-> <<min_rating, max_rating>>]
    IN  /\ IF user.next_puzzle # NoPuzzle /\ SavedPuzzleIsNew(saved)
           THEN /\ last' = seen @@
                       [puzzle |-> saved.puzzle.id,
                        card |-> NewCard(user.next_puzzle, now, srs_config),
                        due_today |-> TRUE]
                /\ user' = user
           ELSE \E got \in GetRandomPuzzle(cards, min_rating, max_rating) :
                    IF got.puzzle # NoPuzzleRow
                    THEN LET c == IF got.card = NoCard
                                  THEN NewCard(got.puzzle.id, now, srs_config)
                                  ELSE got.card
                         IN  /\ user' = SaveSampledPuzzle(user, got.puzzle)
                             /\ last' = seen @@
                                    [puzzle |-> got.puzzle.id, card |-> c,
                                     due_today |-> IsDue(c, now)]
                    ELSE /\ user' = SaveSampledPuzzle(user, got.puzzle)
                         /\ last' = seen @@
                                [puzzle |-> NoPuzzle, card |-> NoCard, due_today |-> FALSE]
        /\ UNCHANGED <<srs_config, now, card, before, score, cards, reviews, skipped,
                       tasks>>

\* The requests the server is sent.
ReviewRequest ==
    \E id \in RequestIds, d \in RequestDifficulties, rc \in RequestCounts :
        ApiReview(id, d, rc)

SkipRequest ==
    \E id \in RequestIds, r \in RequestSkips : ApiSkipNext(id, r[1], r[2])

RandomRequest ==
    \E r \in RequestRatings : ApiRandomPuzzle(r[1], r[2])

Next ==
    \/ Tick
    \/ ReviewRequest
    \/ SkipRequest
    \/ RandomRequest

Spec == Init /\ [][Next]_vars

-----------------------------------------------------------------------------
(* SpecCard: Card::review applied to one card, for any card and grades.    *)

\* The configurations the card is reviewed under: the default, one with
\* other values, one whose SRS_EASY_BONUS is below 1 and one whose
\* SRS_DEFAULT_EASE is below SRS_MINIMUM_EASE (AppConfig::from_env accepts any
\* three numbers).
SrsConfigs ==
    { DefaultSrsConfig,
      [DefaultSrsConfig EXCEPT !.default_ease = 200, !.minimum_ease = 150,
                               !.easy_bonus = 150],
      [DefaultSrsConfig EXCEPT !.easy_bonus = 50],
      [DefaultSrsConfig EXCEPT !.default_ease = 120] }

\* The intervals, eases and learning stages of the card read from the cards
\* table (card_from_row): the row may have been written under another
\* configuration or by an earlier version.  The card Card::new builds
\* (interval 10 minutes, ease default_ease, stage 0) is among them.
CardIntervals ==
    {5, 10, 20, 24 * 60, 3528, 30 * 24 * 60, MAX_INTERVAL \div 3,
     MAX_INTERVAL, MAX_INTERVAL + 1}
CardEases == {110, 130, 240, 250, 300}
CardStages == 0 .. Len(INITIAL_INTERVALS)

InitCard ==
    /\ srs_config \in SrsConfigs
    /\ now = Midnight
    /\ card \in [id : {"p1"}, due : {Midnight}, interval : CardIntervals,
                 review_count : {0}, ease : CardEases \cup {srs_config.default_ease},
                 learning_stage : CardStages, srs_config : {srs_config}]
    /\ before = NoCard
    /\ score = NoScore
    /\ StoreInit

\* card.review(time_now, score)
CardReview(s) ==
    /\ card.review_count < MaxReviews
    /\ before' = card
    /\ score' = s
    /\ card' = Review(card, now, s)
    /\ UNCHANGED <<srs_config, now>>
    /\ UNCHANGED StoreVars

NextCard == \E s \in Difficulty : CardReview(s)

SpecCard == InitCard /\ [][NextCard]_vars

-----------------------------------------------------------------------------
(* Claims about Card::next_interval and Card::review (SpecCard).           *)

\* C1: for every card and configuration the next intervals are ordered by
\* grade: Again <= Hard <= Good <= Easy.
C1_MonotonicIntervals ==
    /\ NextInterval(card, "Again") <= NextInterval(card, "Hard")
    /\ NextInterval(card, "Hard") <= NextInterval(card, "Good")
    /\ NextInterval(card, "Good") <= NextInterval(card, "Easy")

\* A reviewed card, out of learning, whose four next intervals all differ.
C1_Witness ==
    /\ score # NoScore
    /\ ~InLearning(card)
    /\ NextInterval(card, "Again") < NextInterval(card, "Hard")
    /\ NextInterval(card, "Hard") < NextInterval(card, "Good")
    /\ NextInterval(card, "Good") < NextInterval(card, "Easy")

\* C2: after any sequence of reviews, with any grades and from any card, the
\* ease of the card is at least minimum_ease.
C2_EaseFloor ==
    score # NoScore => card.ease >= card.srs_config.minimum_ease

\* A review whose grade would have taken the ease below the floor.
C2_Witness ==
    /\ score = "Again"
    /\ before.ease - 20 < before.srs_config.minimum_ease
    /\ card.ease = card.srs_config.minimum_ease

\* C3: after any sequence of reviews the interval of the card is at most
\* MAX_INTERVAL.
C3_IntervalCap ==
    score # NoScore => card.interval <= MAX_INTERVAL

\* An Easy review of a card below the cap whose product is beyond the cap.
C3_Witness ==
    /\ score = "Easy"
    /\ before.interval < MAX_INTERVAL
    /\ MulDuration(before.interval, before.ease * before.srs_config.easy_bonus, 10000)
           > MAX_INTERVAL
    /\ card.interval = MAX_INTERVAL

\* C4: a review graded Again leaves the card at learning stage 0 with the
\* first initial interval (10 minutes).
C4_AgainResets ==
    score = "Again" =>
        /\ card.learning_stage = 0
        /\ card.interval = INITIAL_INTERVALS[1]

\* An Again review of a card that had left learning.
C4_Witness ==
    /\ score = "Again"
    /\ before.learning_stage = Len(INITIAL_INTERVALS)
    /\ before.interval > INITIAL_INTERVALS[Len(INITIAL_INTERVALS)]
    /\ card.learning_stage = 0

\* C5: a review graded Easy of a card that was in learning leaves it at
\* learning stage |INITIAL_INTERVALS| with an interval of at least
\* MIN_EASY_INTERVAL.
C5_EasyGraduates ==
    (score = "Easy" /\ InLearning(before)) =>
        /\ card.learning_stage = Len(INITIAL_INTERVALS)
        /\ card.interval >= MIN_EASY_INTERVAL

\* C6 as stated: a review graded Good raises an ease below default_ease to at
\* most min(default_ease, ease + 0.15), and leaves any other ease unchanged.
C6_GoodEaseAsStated ==
    score = "Good" =>
        IF before.ease < before.srs_config.default_ease
        THEN /\ Min(before.srs_config.default_ease, before.ease + 15) >= card.ease
             /\ card.ease > before.ease
        ELSE card.ease = before.ease

\* C6 amended: the same, for a card whose ease is at least minimum_ease
\* before the review.
C6_GoodEaseRecovery ==
    (score = "Good" /\ before.ease >= before.srs_config.minimum_ease) =>
        IF before.ease < before.srs_config.default_ease
        THEN /\ Min(before.srs_config.default_ease, before.ease + 15) >= card.ease
             /\ card.ease > before.ease
        ELSE card.ease = before.ease

\* A Good review of an ease less than 0.15 below default_ease: it stops at
\* default_ease.
C6_Witness ==
    /\ score = "Good"
    /\ before.ease >= before.srs_config.minimum_ease
    /\ before.ease < before.srs_config.default_ease
    /\ before.ease + 15 > before.srs_config.default_ease
    /\ card.ease = before.srs_config.default_ease

-----------------------------------------------------------------------------
(* SpecDay: the clock, the day end and Card::is_due on a card read from    *)
(* the cards table.                                                        *)

\* Times of day the clock is read at: around midnight, around 04:00 and the
\* times of tests::test_day_end_datetime.
ClockTimes ==
    { [m |-> 0, ms |-> 0], [m |-> 0, ms |-> 1000],
      [m |-> 239, ms |-> 59000], [m |-> 239, ms |-> 59500],
      [m |-> 239, ms |-> 59999], [m |-> 240, ms |-> 0],
      [m |-> 240, ms |-> 1], [m |-> 240, ms |-> 500],
      [m |-> 566, ms |-> 0], [m |-> 1439, ms |-> 59000],
      [m |-> 1439, ms |-> 59999] }

ClockInstants ==
    { [m |-> d * MinutesPerDay + t.m, ms |-> t.ms] : d \in 0 .. (MaxDays - 1),
                                                     t \in ClockTimes }

\* Due times of the card, in milliseconds from the day end.
DueOffsets == {-60000, -1000, -1, 0, 1, 500, 999, 1000, 1001, 60000}

\* SRS_DAY_END_HOUR: the default, 04:00, and midnight.
DayEndHours == {4, 0}

InitDay ==
    /\ srs_config \in { [DefaultSrsConfig EXCEPT !.day_end_hour = h] : h \in DayEndHours }
    /\ now = Midnight
    /\ card = NewCard("p1", Midnight, srs_config)
    /\ before = NoCard
    /\ score = NoScore
    /\ StoreInit

\* Time passes.
ClockTick ==
    /\ \E t \in ClockInstants : DtLess(now, t) /\ now' = t
    /\ UNCHANGED <<srs_config, card, before, score>>
    /\ UNCHANGED StoreVars

\* card.is_due::<TP>() on a card whose due time is d (api/tactics.rs,
\* puzzle_by_id).
IsDueProbe(d) ==
    /\ card' = [card EXCEPT !.due = d]
    /\ last' = [op |-> "is_due", now |-> now, due |-> d,
                day_end |-> DayEndDatetime(srs_config, now),
                due_today |-> IsDue(card', now)]
    /\ UNCHANGED <<srs_config, now, before, score, user, cards, reviews, skipped, tasks>>

NextDay ==
    \/ ClockTick
    \/ \E k \in DueOffsets : IsDueProbe(DtShiftMs(DayEndDatetime(srs_config, now), k))
    \/ IsDueProbe(DtShiftMs(now, 1))

SpecDay == InitDay /\ [][NextDay]_vars

\* C9: day_end_datetime(now) is the least instant after now whose time of day
\* is day_end_hour: it is later than now, at most a day later (instants with
\* one time of day are a day apart), and it falls on the day of now when now
\* is before day_end_hour and on the next day otherwise.
C9_DayEndIsNext ==
    LET e == DayEndDatetime(srs_config, now)
        h == HourOfDay(srs_config.day_end_hour)
    IN  /\ DtLess(now, e)
        /\ TimeOfDay(e) = h
        /\ DtLeq(e, DtAdd(now, MinutesPerDay))
        /\ e.m \div MinutesPerDay =
               now.m \div MinutesPerDay + (IF DtLess(TimeOfDay(now), h) THEN 0 ELSE 1)

\* The day end computed when the clock stands exactly at day_end_hour: the
\* same time on the next day.
C9_Witness ==
    /\ last.op = "is_due"
    /\ last.now = now
    /\ TimeOfDay(now) = HourOfDay(srs_config.day_end_hour)
    /\ last.day_end = DtAdd(now, MinutesPerDay)

\* C10: is_due holds exactly when the due time of the card is not after the
\* day end, however little after it the due time is.
C10_IsDueExact ==
    last.op = "is_due" => (last.due_today <=> DtLeq(last.due, last.day_end))

-----------------------------------------------------------------------------
(* Claims about the rating guard and the review handler (Spec).            *)

\* C7: a rating update graded Good, made by a review or by a skip with
\* update_rating, never lowers the stored rating: the stored rating after the
\* request is at least the one before it, and a computed rating that is not
\* higher is discarded, the rating of the users row being left as it was.
\* (A step that rates changes `last`: the request it records could not have
\* been rated in the state before.)
C7_GoodNeverLowers ==
    [][ (last' # last /\ last'.op \in {"review", "skip"} /\ last'.rated
             /\ last'.grade = "Good") =>
            /\ user'.rating.rating >= user.rating.rating
            /\ last'.computed.rating <= user.rating.rating =>
                   (~last'.written /\ user'.rating = user.rating) ]_vars

\* A Good whose computed rating is lower than the stored rating and was
\* discarded.
C7_Witness ==
    /\ last.op \in {"review", "skip"}
    /\ last.rated
    /\ last.grade = "Good"
    /\ last.computed.rating < user.rating.rating
    /\ ~last.written

\* C8 as stated: a review request whose review_count differs from that of the
\* stored card (0 when there is no card) returns success and leaves the cards,
\* the Review rows and the user's rating unchanged.  (A step that sets `last`
\* to a review request is a step of the review handler; one that repeats the
\* request recorded already changes nothing.)
C8_MismatchAsStated ==
    [][ (/\ last' # last
         /\ last'.op = "review"
         /\ last'.request.review_count # StoredReviewCount(cards, last'.request.id)) =>
                /\ last'.response = "Ok"
                /\ cards' = cards
                /\ reviews' = reviews
                /\ user'.rating = user.rating ]_vars

\* C8 amended: the same, for a request whose difficulty is a grade and whose
\* puzzle exists.
C8_MismatchIgnored ==
    [][ (/\ last' # last
         /\ last'.op = "review"
         /\ last'.request.review_count # StoredReviewCount(cards, last'.request.id)
         /\ DifficultyFromI64(last'.request.difficulty) # "Err"
         /\ GetPuzzleById(last'.request.id) # NoPuzzleRow) =>
                /\ last'.response = "Ok"
                /\ cards' = cards
                /\ reviews' = reviews
                /\ user'.rating = user.rating ]_vars

\* A reviewed card and a request that carries another review_count than the
\* card's: answered Ok, nothing rated.
C8_Witness ==
    /\ last.op = "review"
    /\ cards[last.request.id] # NoCard
    /\ last.request.review_count # cards[last.request.id].review_count
    /\ DifficultyFromI64(last.request.difficulty) # "Err"
    /\ last.response = "Ok"
    /\ ~last.rated
    /\ Len(reviews) = cards[last.request.id].review_count

-----------------------------------------------------------------------------
(* SpecQueue: TacticsService::get_next_review over stored cards.           *)

\* SQLite datetime(x): the instant in whole seconds, the fraction dropped.
SqlDatetime(dt) == dt.m * 60 + dt.ms \div 1000

\* The rows of `cards LEFT JOIN puzzles ... WHERE puzzles.puzzle_id NOT NULL`.
CardsWithPuzzle(table) ==
    { table[id] : id \in { i \in DOMAIN table :
                             table[i] # NoCard /\ GetPuzzleById(i) # NoPuzzleRow } }

\* A faulty filter: cards of every interval pass.
DueRows_AnyInterval(table, time, min_interval) ==
    { c \in CardsWithPuzzle(table) : SqlDatetime(c.due) <= SqlDatetime(time) }

\* PuzzleDatabase::get_next_review_due, the WHERE clause.
DueRows(table, time, min_interval) ==
    { c \in CardsWithPuzzle(table) :
        /\ SqlDatetime(c.due) <= SqlDatetime(time)
        /\ c.interval >= min_interval }

\* PuzzleDatabase::get_next_review_due: ORDER BY datetime(due) ASC LIMIT 1.
\* Every row the query may return (rows of one second are in no order); the
\* empty set when it returns none.
GetNextReviewDue(table, time, min_interval) ==
    LET rows == DueRows(table, time, min_interval)
    IN  { c \in rows : \A o \in rows : SqlDatetime(c.due) <= SqlDatetime(o.due) }

\* A faulty get_next_review: only the cards due by now, none reviewed ahead.
GetNextReview_NowOnly(table, config, t) == GetNextReviewDue(table, t, 0)

\* TacticsService::get_next_review at the instant t: every card it may
\* return; the empty set when it returns none.
GetNextReview(table, config, t) ==
    LET next_review_due_now == GetNextReviewDue(table, t, 0)
        max_learning_interval == INITIAL_INTERVALS[Len(INITIAL_INTERVALS)]
        review_cutoff_today == DayEndDatetime(config, t)
        next_non_learning_review_due_today ==
            GetNextReviewDue(table, review_cutoff_today, max_learning_interval)
    IN  IF next_review_due_now # {}
        THEN next_review_due_now
        ELSE next_non_learning_review_due_today

\* ReviewOrder.
ReviewOrders == {"DueTime", "PuzzleRating", "Random"}

\* The instants the queue is read at.
QueueInstants ==
    { [m |-> 0, ms |-> 0], [m |-> 0, ms |-> 200], [m |-> 30, ms |-> 0],
      [m |-> 5 * 60, ms |-> 0] }

\* The stored cards: reviewed once or more (Card::review), in learning
\* (10 minutes), at the last learning step (24 hours) or mature (7 days), due
\* before, within a second of, and after the instants the queue is read at.
QueueDues ==
    { [m |-> -10, ms |-> 0], [m |-> 0, ms |-> 500], [m |-> 20, ms |-> 0],
      [m |-> 200, ms |-> 0], [m |-> 2000, ms |-> 0] }
QueueIntervals == { INITIAL_INTERVALS[1], INITIAL_INTERVALS[2], 7 * MinutesPerDay }

QueueCard(id, interval, due, config) ==
    [id |-> id, due |-> due, interval |-> interval, review_count |-> 1,
     ease |-> config.default_ease,
     learning_stage |-> IF interval = INITIAL_INTERVALS[1] THEN 1 ELSE Len(INITIAL_INTERVALS),
     srs_config |-> config]

InitQueue ==
    /\ srs_config \in { [DefaultSrsConfig EXCEPT !.review_order = o] : o \in ReviewOrders }
    /\ now = Midnight
    /\ card = NoCard
    /\ before = NoCard
    /\ score = NoScore
    /\ user = InitUser
    /\ \E c1 \in {NoCard} \cup { QueueCard("p1", i, d, srs_config) :
                                    i \in QueueIntervals, d \in QueueDues },
          c2 \in {NoCard} \cup { QueueCard("p2", i, d, srs_config) :
                                    i \in QueueIntervals, d \in QueueDues },
          cx \in {NoCard, QueueCard("px", 7 * MinutesPerDay, [m |-> -10, ms |-> 0],
                                    srs_config)} :
            cards = [p \in RequestIds |->
                        IF p = "p1" THEN c1 ELSE IF p = "p2" THEN c2 ELSE cx]
    /\ reviews = <<>>
    /\ skipped = <<>>
    /\ last = NoRequest
    /\ tasks = NoTasks

\* Time passes.
QueueTick ==
    /\ \E t \in QueueInstants : DtLess(now, t) /\ now' = t
    /\ UNCHANGED <<srs_config, card, before, score>>
    /\ UNCHANGED StoreVars

\* GET /api/tactics/review (api::tactics::next_review).
ApiNextReview ==
    LET found == GetNextReview(cards, srs_config, now)
    IN  /\ IF found = {}
           THEN /\ card' = NoCard
                /\ last' = [op |-> "next_review", now |-> now, card |-> NoCard,
                            due_today |-> FALSE]
           ELSE \E c \in found :
                    /\ card' = c
                    /\ last' = [op |-> "next_review", now |-> now, card |-> c,
                                due_today |-> TRUE]
        /\ UNCHANGED <<srs_config, now, before, score, user, cards, reviews, skipped, tasks>>

NextQueue ==
    \/ QueueTick
    \/ ApiNextReview

SpecQueue == InitQueue /\ [][NextQueue]_vars

-----------------------------------------------------------------------------
(* Claims about get_next_review (SpecQueue).                               *)

-----------------------------------------------------------------------------
(* Claims about the saved next puzzle (Spec).                              *)

\* C12: while the user's next_puzzle is P, P is a row of the puzzles table
\* and P has no card, every random-puzzle request, whatever its rating
\* window, returns P with a fresh card and leaves next_puzzle = P.  (The
\* steps that leave the clock alone and end with a random-puzzle request in
\* `last` are the steps of the random-puzzle handler.)
C12_StickyNextPuzzle ==
    [][ (/\ last'.op = "random"
         /\ now' = now
         /\ user.next_puzzle # NoPuzzle
         /\ GetPuzzleById(user.next_puzzle) # NoPuzzleRow
         /\ cards[user.next_puzzle] = NoCard) =>
            /\ last'.puzzle = user.next_puzzle
            /\ last'.card = NewCard(user.next_puzzle, now, srs_config)
            /\ user'.next_puzzle = user.next_puzzle ]_vars

\* The saved puzzle p1 returned to a request whose rating window holds p2
\* only.
C12_Witness ==
    /\ last.op = "random"
    /\ last.request = <<700, 800>>
    /\ last.puzzle = "p1"
    /\ user.next_puzzle = "p1"
    /\ cards["p1"] = NoCard

\* C13: a review of P that is applied while next_puzzle = P leaves
\* next_puzzle empty, and a random-puzzle request made while next_puzzle is
\* empty samples the rating window of the request: it returns a puzzle of the
\* window and saves it, or nothing when the window holds no puzzle.
C13_ReviewClearsNextPuzzle ==
    [][ /\ (last' # last /\ last'.op = "review" /\ last'.rated /\ last'.was_saved) =>
               user'.next_puzzle = NoPuzzle
        /\ (last'.op = "random" /\ now' = now /\ user.next_puzzle = NoPuzzle) =>
               LET window == GetPuzzlesByRating(
                       Clamp(last'.request[1], MinPuzzleRating, MaxPuzzleRating),
                       Clamp(last'.request[2], MinPuzzleRating, MaxPuzzleRating))
               IN  IF window = {}
                   THEN last'.puzzle = NoPuzzle /\ user'.next_puzzle = NoPuzzle
                   ELSE /\ last'.puzzle \in { p.id : p \in window }
                        /\ user'.next_puzzle = last'.puzzle ]_vars

\* An applied review of the puzzle that was the saved next puzzle.
C13_Witness ==
    /\ last.op = "review"
    /\ last.rated
    /\ last.was_saved
    /\ cards[last.request.id] # NoCard
    /\ user.next_puzzle = NoPuzzle

\* C14: when a random-puzzle request returns a puzzle Q, the stored
\* next_puzzle is Q's id immediately afterwards; when it returns no puzzle,
\* next_puzzle is what it was before the request.
C14_ReturnedPuzzleIsSaved ==
    [][ (last'.op = "random" /\ now' = now) =>
            IF last'.puzzle # NoPuzzle
            THEN user'.next_puzzle = last'.puzzle
            ELSE user'.next_puzzle = user.next_puzzle ]_vars

\* A sampled puzzle that already has a card was returned and saved.
C14_Witness ==
    /\ last.op = "random"
    /\ last.puzzle = "p2"
    /\ cards["p2"] # NoCard
    /\ last.card = cards["p2"]
    /\ user.next_puzzle = "p2"

\* C15: a skip request for the saved next puzzle, when that puzzle exists,
\* appends a SkippedPuzzle row for the puzzle and leaves next_puzzle empty.
C15_SkipAppendsAndClears ==
    [][ (/\ last'.op = "skip"
         /\ now' = now
         /\ user.next_puzzle = last'.request.id
         /\ GetPuzzleById(last'.request.id) # NoPuzzleRow) =>
            /\ Len(skipped') = Len(skipped) + 1
            /\ skipped'[Len(skipped')].puzzle_id = last'.request.id
            /\ user'.next_puzzle = NoPuzzle ]_vars

\* C17: when get_next_review has both a candidate A (the earliest card due
\* by now) and a candidate B (the earliest card of interval >= 24 hours due by
\* the day end), it returns the one review_order selects: DueTime the one
\* due earlier, PuzzleRating the one whose puzzle has the lower rating,
\* Random the candidate A.
C17_ReviewOrderSelects ==
    (last.op = "next_review") =>
        LET A == GetNextReviewDue(cards, last.now, 0)
            B == GetNextReviewDue(cards, DayEndDatetime(srs_config, last.now),
                                  INITIAL_INTERVALS[Len(INITIAL_INTERVALS)])
            Rating(c) == GetPuzzleById(c.id).rating
        IN  (A # {} /\ B # {}) =>
                \E a \in A, b \in B :
                    CASE srs_config.review_order = "DueTime" ->
                            /\ last.card \in {a, b}
                            /\ SqlDatetime(last.card.due) =
                                   Min(SqlDatetime(a.due), SqlDatetime(b.due))
                      [] srs_config.review_order = "PuzzleRating" ->
                            /\ last.card \in {a, b}
                            /\ Rating(last.card) = Min(Rating(a), Rating(b))
                      [] srs_config.review_order = "Random" ->
                            last.card = a

-----------------------------------------------------------------------------
(* SpecScenario: sequences of Card::review calls on one card under the     *)
(* default SrsConfig, from a new card and from a mature card; last keeps   *)
(* the card the sequence started from and the grades given so far.         *)

\* Card::new: interval 10 minutes, learning_stage 0, ease 2.5, review_count 0.
ScenarioFresh == NewCard("p1", Midnight, DefaultSrsConfig)

\* A stored mature card: interval 30 days, ease 2.5, learning_stage 2.
ScenarioMature ==
    [id |-> "p1", due |-> Midnight, interval |-> 30 * MinutesPerDay, review_count |-> 0,
     ease |-> DefaultSrsConfig.default_ease, learning_stage |-> Len(INITIAL_INTERVALS),
     srs_config |-> DefaultSrsConfig]

InitScenario ==
    /\ srs_config = DefaultSrsConfig
    /\ now = Midnight
    /\ card \in {ScenarioFresh, ScenarioMature}
    /\ before = NoCard
    /\ score = NoScore
    /\ user = InitUser
    /\ cards = [p \in RequestIds |-> NoCard]
    /\ reviews = <<>>
    /\ skipped = <<>>
    /\ last = [op |-> "scenario", start |-> card, grades |-> <<>>]
    /\ tasks = NoTasks

\* card.review(time_now, score), the next review of the sequence.
ScenarioReview(s) ==
    /\ Len(last.grades) < MaxReviews
    /\ before' = card
    /\ score' = s
    /\ card' = Review(card, now, s)
    /\ last' = [last EXCEPT !.grades = Append(@, s)]
    /\ UNCHANGED <<srs_config, now, user, cards, reviews, skipped, tasks>>

NextScenario == \E s \in Difficulty : ScenarioReview(s)

SpecScenario == InitScenario /\ [][NextScenario]_vars

\* C18 as stated: from a new card, Good gives interval 24 hours,
\* learning_stage 1 and review_count 1; Good again gives interval 60 hours and
\* review_count 2; then Easy gives interval 8.125 days, ease 2.65 and
\* review_count 3.
C18_ScenarioAAsStated ==
    (last.op = "scenario" /\ last.start = ScenarioFresh) =>
        /\ last.grades = <<"Good">> =>
              /\ card.interval = 24 * 60
              /\ card.learning_stage = 1
              /\ card.review_count = 1
        /\ last.grades = <<"Good", "Good">> =>
              /\ card.interval = 60 * 60
              /\ card.review_count = 2
        /\ last.grades = <<"Good", "Good", "Easy">> =>
              /\ card.interval = (8125 * MinutesPerDay) \div 1000
              /\ card.ease = 265
              /\ card.review_count = 3

\* C18: from a new card, Good gives the first learning step, interval 10
\* minutes, with learning_stage 1 and review_count 1; Good again gives the
\* second learning step, interval 24 hours, with learning_stage 2 and
\* review_count 2; then Easy gives interval 4 days (MIN_EASY_INTERVAL, above
\* 24 hours x 2.5 x 1.3 = 78 hours), ease 2.65 and review_count 3.
C18_ScenarioA ==
    (last.op = "scenario" /\ last.start = ScenarioFresh) =>
        /\ last.grades = <<"Good">> =>
              /\ card.interval = INITIAL_INTERVALS[1]
              /\ card.learning_stage = 1
              /\ card.ease = 250
              /\ card.review_count = 1
        /\ last.grades = <<"Good", "Good">> =>
              /\ card.interval = INITIAL_INTERVALS[2]
              /\ card.learning_stage = 2
              /\ card.ease = 250
              /\ card.review_count = 2
        /\ last.grades = <<"Good", "Good", "Easy">> =>
              /\ card.interval = MIN_EASY_INTERVAL
              /\ card.learning_stage = 2
              /\ card.ease = 265
              /\ card.review_count = 3

\* The new card was reviewed Good, Good, Easy.
C18_Witness ==
    /\ last.op = "scenario"
    /\ last.start = ScenarioFresh
    /\ last.grades = <<"Good", "Good", "Easy">>
    /\ card.review_count = 3

\* C19 as stated: from a mature card (interval 30 days, ease 2.5,
\* learning_stage 2), Again gives interval 10 minutes, learning_stage 0 and
\* ease 2.3; then Good gives interval 24 hours, learning_stage 1 and ease
\* 2.45; then Good gives interval 2.45 days.
C19_ScenarioBAsStated ==
    (last.op = "scenario" /\ last.start = ScenarioMature) =>
        /\ last.grades = <<"Again">> =>
              /\ card.interval = 10
              /\ card.learning_stage = 0
              /\ card.ease = 230
        /\ last.grades = <<"Again", "Good">> =>
              /\ card.interval = 24 * 60
              /\ card.learning_stage = 1
              /\ card.ease = 245
        /\ last.grades = <<"Again", "Good", "Good">> =>
              card.interval = (245 * MinutesPerDay) \div 100

\* C19: from a mature card (interval 30 days, ease 2.5, learning_stage 2),
\* Again gives interval 10 minutes, learning_stage 0 and ease 2.3; then Good
\* gives the first learning step, interval 10 minutes, with learning_stage 1
\* and ease 2.45; then Good gives the second learning step, interval 24
\* hours, with learning_stage 2 and ease 2.5.
C19_ScenarioB ==
    (last.op = "scenario" /\ last.start = ScenarioMature) =>
        /\ last.grades = <<"Again">> =>
              /\ card.interval = INITIAL_INTERVALS[1]
              /\ card.learning_stage = 0
              /\ card.ease = 230
        /\ last.grades = <<"Again", "Good">> =>
              /\ card.interval = INITIAL_INTERVALS[1]
              /\ card.learning_stage = 1
              /\ card.ease = 245
        /\ last.grades = <<"Again", "Good", "Good">> =>
              /\ card.interval = INITIAL_INTERVALS[2]
              /\ card.learning_stage = 2
              /\ card.ease = 250

\* The mature card was reviewed Again, Good, Good.
C19_Witness ==
    /\ last.op = "scenario"
    /\ last.start = ScenarioMature
    /\ last.grades = <<"Again", "Good", "Good">>
    /\ card.review_count = 3

-----------------------------------------------------------------------------
(* SpecWrites: api::tactics::review as the steps between its awaits.  Each *)
(* database statement is one step; the server runs the handlers of         *)
(* requests that arrive together as concurrent tasks, so the steps of two  *)
(* handlers interleave.  A handler whose statement fails, or whose task is *)
(* dropped while it is suspended, makes no further step.                   *)

\* Review requests the server receives in one behaviour.
MaxRequests == 3

WriteDifficulties == {0, 2, 4}
WriteCounts == {0, 1}

InitWrites ==
    /\ srs_config = DefaultSrsConfig
    /\ now = Midnight
    /\ card = NoCard
    /\ before = NoCard
    /\ score = NoScore
    /\ StoreInit

\* The task t takes its next step and is left in the state next.
TaskStep(t, next) == tasks' = [tasks EXCEPT !.run[t] = next]

\* review up to the first read of the tables: the difficulty is parsed and
\* the saved next puzzle is cleared when it is the puzzle of the request.
ReviewReceive(t, id, d, rc) ==
    LET difficulty == DifficultyFromI64(d)
    IN  /\ tasks.run[t] = Idle
        /\ tasks.received < MaxRequests
        /\ IF difficulty = "Err"
           THEN /\ tasks' = [tasks EXCEPT !.received = @ + 1]
                /\ user' = user
           ELSE /\ tasks' = [tasks EXCEPT
                       !.received = @ + 1,
                       !.run[t] = [pc |-> "lookup", id |-> id,
                                   difficulty |-> difficulty, review_count |-> rc]]
                /\ user' = ClearSavedPuzzle(user, id)
        /\ UNCHANGED <<srs_config, now, card, before, score, cards, reviews, skipped, last>>

\* get_puzzle_by_id and the review_count test.
ReviewLookup(t) ==
    LET task == tasks.run[t]
        found == GetPuzzleAndCard(cards, task.id)
        c == IF found.card = NoCard THEN NewCard(task.id, now, srs_config) ELSE found.card
    IN  /\ task.pc = "lookup"
        /\ IF found.puzzle = NoPuzzleRow \/ ~ReviewCountMatches(c, task.review_count)
           THEN TaskStep(t, Idle)
           ELSE TaskStep(t, [pc |-> "rate", id |-> task.id, difficulty |-> task.difficulty,
                             puzzle |-> found.puzzle, card |-> c])
        /\ UNCHANGED <<srs_config, now, card, before, score, user, cards, reviews,
                       skipped, last>>

\* update_rating.
ReviewRate(t) ==
    LET task == tasks.run[t]
    IN  /\ task.pc = "rate"
        /\ \E computed \in RatingUpdate(user.rating, GameResult(task.puzzle, task.difficulty)) :
              /\ user' = UpdateRating(user, task.difficulty, computed)
              /\ TaskStep(t, [pc |-> "upsert", id |-> task.id,
                              difficulty |-> task.difficulty, card |-> task.card,
                              new_rating |-> UpdateRatingReturns(user')])
        /\ UNCHANGED <<srs_config, now, card, before, score, cards, reviews, skipped, last>>

\* apply_review: card.review and update_or_create_card.
ReviewUpsert(t) ==
    LET task == tasks.run[t]
        reviewed == Review(task.card, now, task.difficulty)
    IN  /\ task.pc = "upsert"
        /\ cards' = [cards EXCEPT ![task.id] = reviewed]
        /\ TaskStep(t, [pc |-> "append", id |-> task.id, difficulty |-> task.difficulty,
                        new_rating |-> task.new_rating])
        /\ UNCHANGED <<srs_config, now, card, before, score, user, reviews, skipped, last>>

\* apply_review: add_review_for_user, after which the handler answers.
ReviewAppend(t) ==
    LET task == tasks.run[t]
    IN  /\ task.pc = "append"
        /\ reviews' = Append(reviews,
               ReviewRow(task.id, task.difficulty, now, task.new_rating))
        /\ TaskStep(t, Idle)
        /\ UNCHANGED <<srs_config, now, card, before, score, user, cards, skipped, last>>

\* The awaited statement fails (the `?` returns the error), or the task is
\* dropped while it is suspended: the handler makes no further step.
ReviewDropped(t) ==
    /\ tasks.run[t] # Idle
    /\ TaskStep(t, Idle)
    /\ UNCHANGED <<srs_config, now, card, before, score, user, cards, reviews, skipped,
                   last>>

NextWrites ==
    \/ \E t \in TaskIds, id \in RequestIds, d \in WriteDifficulties, rc \in WriteCounts :
          ReviewReceive(t, id, d, rc)
    \/ \E t \in TaskIds : ReviewLookup(t)
    \/ \E t \in TaskIds : ReviewRate(t)
    \/ \E t \in TaskIds : ReviewUpsert(t)
    \/ \E t \in TaskIds : ReviewAppend(t)
    \/ \E t \in TaskIds : ReviewDropped(t)

SpecWrites == InitWrites /\ [][NextWrites]_vars

\* The Review rows of a puzzle.
ReviewRows(id) == { i \in DOMAIN reviews : reviews[i].puzzle_id = id }

\* C16: in every state a reader can observe, also between the writes of a
\* review and after a handler failed or was dropped between them, the number
\* of Review rows of a puzzle is at most the review_count of its stored card.
C16_RowsNeverExceedCount ==
    \A id \in RequestIds : Cardinality(ReviewRows(id)) <= StoredReviewCount(cards, id)

-----------------------------------------------------------------------------
(* SpecSerial: the steps of api::tactics::review with one request handled  *)
(* at a time and every statement succeeding, from the empty store.         *)

\* The task that handles every request.
SerialTask == "t1"

NextSerial ==
    \/ \E id \in RequestIds, d \in WriteDifficulties, rc \in WriteCounts :
          ReviewReceive(SerialTask, id, d, rc)
    \/ ReviewLookup(SerialTask)
    \/ ReviewRate(SerialTask)
    \/ ReviewUpsert(SerialTask)
    \/ ReviewAppend(SerialTask)

SpecSerial == InitWrites /\ [][NextSerial]_vars

RECURSIVE SumReviewCount(_, _)
SumReviewCount(table, ids) ==
    IF ids = {}
    THEN 0
    ELSE LET id == CHOOSE i \in ids : TRUE
         IN  StoredReviewCount(table, id) + SumReviewCount(table, ids \ {id})

\* PuzzleDatabase::get_review_count: COALESCE(SUM(review_count), 0) FROM cards.
GetReviewCount(table) == SumReviewCount(table, { id \in DOMAIN table : table[id] # NoCard })

\* C20: with requests handled one at a time from the empty store, whenever
\* no review is in progress the sum of review_count over the cards is the
\* number of Review rows; the cards table changes only by one card's
\* review_count going up by exactly 1, and the reviews table only by one row
\* being appended, once each per applied review.
C20_ReviewCountIsRows ==
    /\ [](tasks.run[SerialTask] = Idle => GetReviewCount(cards) = Len(reviews))
    /\ [][ /\ cards' # cards =>
                /\ \E id \in RequestIds :
                      /\ StoredReviewCount(cards', id) = StoredReviewCount(cards, id) + 1
                      /\ \A o \in RequestIds \ {id} : cards'[o] = cards[o]
                /\ reviews' = reviews
                /\ GetReviewCount(cards') = Len(reviews) + 1
           /\ reviews' # reviews =>
                /\ Len(reviews') = Len(reviews) + 1
                /\ SubSeq(reviews', 1, Len(reviews)) = reviews
                /\ cards' = cards
                /\ GetReviewCount(cards) = Len(reviews') ]_vars

\* Three reviews were applied, two of one puzzle and one of another.
C20_Witness ==
    /\ tasks.run[SerialTask] = Idle
    /\ tasks.received = 3
    /\ Len(reviews) = 3
    /\ cards["p1"] # NoCard /\ cards["p1"].review_count = 2
    /\ cards["p2"] # NoCard /\ cards["p2"].review_count = 1

-----------------------------------------------------------------------------
(* The learning stages (SpecCard).                                         *)

\* C29 as stated: a review graded Hard of a card in learning at stage k
\* leaves learning_stage at k.
C29_HardKeepsStageAsStated ==
    (score = "Hard" /\ InLearning(before)) =>
        card.learning_stage = before.learning_stage

\* C29: a review graded Hard of a card in learning at stage k keeps its
\* interval (raised to 10 minutes when it was shorter) and moves the card to
\* stage k + 1.
C29_HardAdvancesStage ==
    (score = "Hard" /\ InLearning(before)) =>
        /\ card.learning_stage = before.learning_stage + 1
        /\ card.interval = Max(before.interval, INITIAL_INTERVALS[1])

\* A Hard review of a card in learning at stage 0.
C29_Witness ==
    /\ score = "Hard"
    /\ InLearning(before)
    /\ before.learning_stage = 0
    /\ card.learning_stage = 1

\* C30: a review graded Good of a card in learning at stage k sets the
\* interval to the learning step of stage k and the stage to k + 1, and the
\* card has left learning exactly when k + 1 = |INITIAL_INTERVALS|.
C30_GoodAdvancesStage ==
    (score = "Good" /\ InLearning(before)) =>
        /\ card.interval = INITIAL_INTERVALS[before.learning_stage + 1]
        /\ card.learning_stage = before.learning_stage + 1
        /\ ~InLearning(card) <=> (before.learning_stage + 1 = Len(INITIAL_INTERVALS))

\* A Good review of a card at the last learning stage, which leaves learning.
C30_Witness ==
    /\ score = "Good"
    /\ InLearning(before)
    /\ before.learning_stage = Len(INITIAL_INTERVALS) - 1
    /\ before.interval < INITIAL_INTERVALS[Len(INITIAL_INTERVALS)]
    /\ card.interval = INITIAL_INTERVALS[Len(INITIAL_INTERVALS)]
    /\ ~InLearning(card)

-----------------------------------------------------------------------------
(* The rating snapshot of a review (Spec).                                 *)

-----------------------------------------------------------------------------
(* SpecRating: Rating::update over a rating period without games.          *)
(*                                                                         *)
(* With no results both sums of Rating::update are 0.0: variance is        *)
(* 1.0 / 0.0 = inf and delta is inf * 0.0 = NaN.  In                       *)
(* calculate_new_volatility every f(x) is NaN and every comparison with    *)
(* it is false, so b starts at a - TAU, the loop body runs once (b becomes *)
(* NaN, a is kept) and the result is exp(a / 2) with a = ln(volatility^2), *)
(* the old volatility.  deviation_pre is sqrt(deviation^2 + volatility^2)  *)
(* on the Glicko-2 scale, deviation_new = 1 / sqrt(1 / deviation_pre^2 +   *)
(* 1 / inf) is deviation_pre, and rating_new is rating + 0.  Both are      *)
(* scaled back by RATING_SCALE and truncated by `as i64`.                  *)

\* Rating periods without games in one behaviour.
MaxPeriods == 2

\* RATING_SCALE squared (173.7178^2 = 30177.87) over the 100^2 of a volatility
\* in hundredths, times 100.
RatingScaleSquared == 302

\* The integer part of the square root of hundredths / 100.
SqrtFloor(hundredths) ==
    CHOOSE n \in 0..1000 : n * n * 100 <= hundredths /\ hundredths < (n + 1) * (n + 1) * 100

\* Rating::update(vec![]) in exact arithmetic (the binary rounding of f64 is
\* not modelled): the rating and the volatility are kept, the deviation is
\* the truncated sqrt(deviation^2 + (173.7178 * volatility)^2).
RatingUpdateNoGames(r) ==
    [rating |-> r.rating, volatility |-> r.volatility,
     deviation |-> SqrtFloor(r.deviation * r.deviation * 100
                             + r.volatility * r.volatility * RatingScaleSquared)]

RatingValues == {7, 500, 1500}
DeviationValues == {30, 50, 53, 54, 100, 250, 350}
VolatilityValues == {3, 6, 9}

InitRating ==
    /\ srs_config = DefaultSrsConfig
    /\ now = Midnight
    /\ card = NoCard
    /\ before = NoCard
    /\ score = NoScore
    /\ user \in [rating : [rating : RatingValues, deviation : DeviationValues,
                           volatility : VolatilityValues],
                 next_puzzle : {NoPuzzle}]
    /\ cards = [p \in RequestIds |-> NoCard]
    /\ reviews = <<>>
    /\ skipped = <<>>
    /\ last = [op |-> "update", periods |-> 0, old |-> NoRating]
    /\ tasks = NoTasks

\* user.rating.update(vec![]).
EmptyPeriod ==
    /\ last.periods < MaxPeriods
    /\ user' = [user EXCEPT !.rating = RatingUpdateNoGames(user.rating)]
    /\ last' = [op |-> "update", periods |-> last.periods + 1, old |-> user.rating]
    /\ UNCHANGED <<srs_config, now, card, before, score, cards, reviews, skipped, tasks>>

NextRating == EmptyPeriod

SpecRating == InitRating /\ [][NextRating]_vars

\* C26: a rating update over an empty list of game results leaves the
\* rating, the deviation and the volatility exactly as they were.
C26_EmptyUpdateIsIdentity ==
    (last.op = "update" /\ last.periods > 0) => user.rating = last.old

-----------------------------------------------------------------------------
(* SpecUser: the two writers of the stored rating, UserService::           *)
(* update_rating and UserService::reset_user_rating.                       *)

\* The ratings reset_user_rating is given: rating, deviation, volatility.
ResetRatings ==
    { [rating |-> 1000, deviation |-> 350, volatility |-> 6],
      [rating |-> 1500, deviation |-> 200, volatility |-> 9] }

InitUserSpec ==
    /\ srs_config = DefaultSrsConfig
    /\ now = Midnight
    /\ card = NoCard
    /\ before = NoCard
    /\ score = NoScore
    /\ StoreInit

\* update_rating(user_id, difficulty, result) for a game against a puzzle.
UserUpdateRating(puzzle, difficulty) ==
    /\ tasks.received < MaxRequests
    /\ \E computed \in RatingUpdate(user.rating, GameResult(puzzle, difficulty)) :
          /\ user' = UpdateRating(user, difficulty, computed)
          /\ last' = [op |-> "update_rating", old |-> user.rating, computed |-> computed,
                      written |-> RatingIsWritten(difficulty, computed, user.rating)]
    /\ tasks' = [tasks EXCEPT !.received = @ + 1]
    /\ UNCHANGED <<srs_config, now, card, before, score, cards, reviews, skipped>>

\* reset_user_rating(user_id, rating, deviation, volatility).
UserResetRating(given) ==
    /\ tasks.received < MaxRequests
    /\ user' = UpdateUser(user, [user EXCEPT !.rating = given])
    /\ last' = [op |-> "reset_user_rating", old |-> user.rating, computed |-> given,
                written |-> TRUE]
    /\ tasks' = [tasks EXCEPT !.received = @ + 1]
    /\ UNCHANGED <<srs_config, now, card, before, score, cards, reviews, skipped>>

NextUser ==
    \/ \E puzzle \in Puzzles, difficulty \in Difficulty : UserUpdateRating(puzzle, difficulty)
    \/ \E given \in ResetRatings : UserResetRating(given)

SpecUser == InitUserSpec /\ [][NextUser]_vars

\* C22: when a rating update is persisted the stored rating, deviation and
\* volatility are the computed ones, and when it is discarded all three are
\* the old ones; after reset_user_rating(rating, deviation, volatility) the
\* three stored values are the given ones.
C22_AllThreeFollow ==
    (last.op \in {"update_rating", "reset_user_rating"}) =>
        user.rating = IF last.written THEN last.computed ELSE last.old

-----------------------------------------------------------------------------
(* SpecStats: the stats, forecast and rating-history queries over a store. *)

\* const REVIEW_FORECAST_LENGTH.
REVIEW_FORECAST_LENGTH == 8

MsPerDay == MinutesPerDay * MsPerMinute

\* DateTime + Duration::days(k).
DtPlusDays(dt, k) == [m |-> dt.m + k * MinutesPerDay, ms |-> dt.ms]

\* The rows of the cards table.
StoredCards(table) == { table[id] : id \in { i \in DOMAIN table : table[i] # NoCard } }

\* PuzzleDatabase::get_card_count.
GetCardCount(table) == Cardinality(StoredCards(table))

\* PuzzleDatabase::reviews_due_by, its WHERE clause on one row:
\* (datetime(due) <= datetime(day_end) AND interval >= max_learning_interval)
\* OR datetime(due) <= datetime(time).
DueBy(c, time, day_end) ==
    \/ /\ SqlDatetime(c.due) <= SqlDatetime(day_end)
       /\ c.interval >= INITIAL_INTERVALS[Len(INITIAL_INTERVALS)]
    \/ SqlDatetime(c.due) <= SqlDatetime(time)

\* PuzzleDatabase::reviews_due_by: count(*) of the rows.
ReviewsDueBy(table, time, day_end) ==
    Cardinality({ c \in StoredCards(table) : DueBy(c, time, day_end) })

\* PuzzleDatabase::reviews_due_between on one row: due in the half-open
\* interval [start, end).
DueBetween(c, start, end) == DtLeq(start, c.due) /\ DtLess(c.due, end)

\* PuzzleDatabase::reviews_due_between: count(*) of the rows.
ReviewsDueBetween(table, start, end) ==
    Cardinality({ c \in StoredCards(table) : DueBetween(c, start, end) })

\* UserService::get_user_stats at the instant t, but for next_review_due.
GetUserStats(table, config, t) ==
    LET day_end == DayEndDatetime(config, t)
    IN  [card_count        |-> GetCardCount(table),
         review_count      |-> GetReviewCount(table),
         reviews_due_now   |-> ReviewsDueBy(table, t, day_end),
         reviews_due_today |-> ReviewsDueBy(table, day_end, day_end)]

\* UserService::get_user_stats, next_review_due: every value it may take
\* (NoCard's id stands for None).
NextReviewDue(table, config, t) ==
    LET day_end == DayEndDatetime(config, t)
        found == GetNextReviewDue(table, day_end, 0)
    IN  IF ReviewsDueBy(table, t, day_end) = 0
        THEN IF found = {} THEN {NoCard.id} ELSE { c.due : c \in found }
        ELSE {t}

\* UserService::get_review_forecast at the instant t: the reviews due by
\* the day end, then the reviews due in each of the REVIEW_FORECAST_LENGTH
\* days that follow it.
GetReviewForecast(table, config, t) ==
    LET day_end == DayEndDatetime(config, t)
    IN  <<ReviewsDueBy(table, day_end, day_end)>> \o
        [i \in 1..REVIEW_FORECAST_LENGTH |->
            ReviewsDueBetween(table, DtPlusDays(day_end, i - 1),
                              DtPlusDays(day_end, i))]

\* The entries of that forecast the card c is counted in.
ForecastEntriesOf(c, config, t) ==
    LET day_end == DayEndDatetime(config, t)
    IN  { i \in 1..(REVIEW_FORECAST_LENGTH + 1) :
            IF i = 1
            THEN DueBy(c, day_end, day_end)
            ELSE DueBetween(c, DtPlusDays(day_end, i - 2), DtPlusDays(day_end, i - 1)) }

\* PuzzleDatabase::get_review_forecast, the day_due of one row:
\* CAST((JULIANDAY(due) - JULIANDAY(day_end)) as integer).  The CAST of a
\* REAL drops the fraction, toward zero.
DayDue(due, day_end) ==
    LET diff == DtSub(due, day_end)
    IN  IF diff >= 0 THEN diff \div MsPerDay ELSE -((-diff) \div MsPerDay)

\* PuzzleDatabase::get_review_forecast: the (day_due, reviews_due) rows of
\* GROUP BY day_due with day_due < max_days.
GetReviewForecastRows(table, day_end, max_days) ==
    LET days == { DayDue(c.due, day_end) : c \in StoredCards(table) }
    IN  { [day_due |-> d,
           reviews_due |-> Cardinality({ c \in StoredCards(table) :
                                           DayDue(c.due, day_end) = d })] :
          d \in { e \in days : e < max_days } }

\* The group of a reviews row: GROUP BY date(reviews.date),
\* strftime('%H', reviews.date), the day and the hour of the day together.
HourBucket(date) == date.m \div 60

\* The reviews rows of the query: WHERE user_id = ? AND user_rating IS NOT
\* NULL (NoRating stands for NULL).
RatedReviews(rows, user_id) ==
    { rows[i] : i \in { j \in DOMAIN rows :
                          /\ rows[j].user_id = user_id
                          /\ rows[j].user_rating # NoRating.rating } }

\* max(user_rating) over the rows rs.
MaxUserRating(rs) ==
    CHOOSE x \in { r.user_rating : r \in rs } : \A r \in rs : r.user_rating <= x

\* SELECT reviews.date, max(user_rating) for the group b: the date comes
\* from a row that holds the maximum, any of them when several do.
GroupPoints(rs, b) ==
    LET group == { r \in rs : HourBucket(r.date) = b }
    IN  { [date |-> r.date, rating |-> MaxUserRating(group), table |-> "reviews"] :
          r \in { x \in group : x.user_rating = MaxUserRating(group) } }

\* SELECT strftime("%Y-%m-%dT%H:%M:%SZ", datetime("now")), rating FROM users:
\* the instant of the query in whole seconds, and the stored rating.  The
\* text of this date never equals the text of a reviews date (to_rfc3339
\* writes an offset, not Z), so UNION merges no row of the two SELECTs.
NowPoint(u, t) ==
    [date |-> [m |-> t.m, ms |-> (t.ms \div 1000) * 1000], rating |-> u.rating.rating,
     table |-> "users"]

\* PuzzleDatabase::get_user_rating_history at the instant t: every result
\* the query may give.  ORDER BY datetime(date) orders by whole seconds and
\* leaves rows of one second in no order.
GetUserRatingHistory(rows, u, t) ==
    LET rs == RatedReviews(rows, "local")
        groups == { HourBucket(r.date) : r \in rs }
        points == UNION { GroupPoints(rs, b) : b \in groups } \cup {NowPoint(u, t)}
        n == Cardinality(groups) + 1
    IN  { h \in [1..n -> points] :
            /\ \A i, j \in 1..n :
                 i < j => /\ h[i] # h[j]
                          /\ SqlDatetime(h[i].date) <= SqlDatetime(h[j].date)
            /\ \E i \in 1..n : h[i] = NowPoint(u, t)
            /\ \A b \in groups : \E i \in 1..n : h[i] \in GroupPoints(rs, b) }

\* UserService::get_rating_history: the rows of the query, as they come.
GetRatingHistory(rows, u, t) == GetUserRatingHistory(rows, u, t)

\* The instants the queries run at.
StatsInstants == { [m |-> 0, ms |-> 700], [m |-> 5 * 60, ms |-> 0] }

\* The stored cards: in learning (10 minutes) or mature (7 days), due more
\* and less than a day before the first day end (04:00), at it, within a
\* second of it, and less than, exactly and more than a day after it.
StatsDues ==
    { [m |-> -1500, ms |-> 0], [m |-> -480, ms |-> 0], [m |-> 240, ms |-> 0],
      [m |-> 240, ms |-> 500], [m |-> 960, ms |-> 0], [m |-> 1680, ms |-> 0],
      [m |-> 3000, ms |-> 0] }
StatsIntervals == { INITIAL_INTERVALS[1], 7 * MinutesPerDay }

\* The stored reviews: none; two of one hour, the first with the higher
\* snapshot; two of one hour with one snapshot; three of three hours, the
\* last in the second the first query runs in.
StatsReviews ==
    { <<>>,
      <<ReviewRow("p1", "Good", [m |-> -90, ms |-> 0], [rating |-> 520]),
        ReviewRow("p1", "Again", [m |-> -70, ms |-> 0], [rating |-> 480])>>,
      <<ReviewRow("p1", "Good", [m |-> -90, ms |-> 0], [rating |-> 520]),
        ReviewRow("p2", "Hard", [m |-> -85, ms |-> 0], [rating |-> 520])>>,
      <<ReviewRow("p1", "Good", [m |-> -90, ms |-> 0], [rating |-> 520]),
        ReviewRow("p1", "Again", [m |-> -30, ms |-> 0], [rating |-> 480]),
        ReviewRow("p2", "Good", [m |-> 0, ms |-> 500], [rating |-> 520])>> }

InitStats ==
    /\ srs_config = DefaultSrsConfig
    /\ now = [m |-> 0, ms |-> 700]
    /\ card = NoCard
    /\ before = NoCard
    /\ score = NoScore
    /\ user = InitUser
    /\ \E c1 \in {NoCard} \cup { QueueCard("p1", i, d, srs_config) :
                                    i \in StatsIntervals, d \in StatsDues },
          c2 \in {NoCard} \cup { QueueCard("p2", i, d, srs_config) :
                                    i \in StatsIntervals, d \in StatsDues } :
            cards = [p \in RequestIds |->
                        IF p = "p1" THEN c1 ELSE IF p = "p2" THEN c2 ELSE NoCard]
    /\ reviews \in StatsReviews
    /\ skipped = <<>>
    /\ last = NoRequest
    /\ tasks = NoTasks

\* Time passes.
StatsTick ==
    /\ \E t \in StatsInstants : DtLess(now, t) /\ now' = t
    /\ UNCHANGED <<srs_config, card, before, score>>
    /\ UNCHANGED StoreVars

\* GET /api/user/stats (api::user::stats).
ApiStats ==
    /\ \E due \in NextReviewDue(cards, srs_config, now) :
         last' = [op |-> "stats", now |-> now,
                  stats |-> GetUserStats(cards, srs_config, now),
                  next_review_due |-> due]
    /\ UNCHANGED <<srs_config, now, card, before, score, user, cards, reviews, skipped,
                   tasks>>

\* UserService::get_review_forecast.
ReviewForecast ==
    /\ last' = [op |-> "review_forecast", now |-> now,
                forecast |-> GetReviewForecast(cards, srs_config, now)]
    /\ UNCHANGED <<srs_config, now, card, before, score, user, cards, reviews, skipped,
                   tasks>>

\* The max_days the forecast query is run with.
ForecastLengths == {0, 2, 30}

\* PuzzleDatabase::get_review_forecast(day_end, max_days).
ForecastQuery(max_days) ==
    LET day_end == DayEndDatetime(srs_config, now)
    IN  /\ last' = [op |-> "forecast_query", now |-> now, day_end |-> day_end,
                    max_days |-> max_days,
                    rows |-> GetReviewForecastRows(cards, day_end, max_days)]
        /\ UNCHANGED <<srs_config, now, card, before, score, user, cards, reviews,
                       skipped, tasks>>

\* GET /api/user/rating_history (api::user::rating_history).
ApiRatingHistory ==
    /\ \E h \in GetRatingHistory(reviews, user, now) :
         last' = [op |-> "rating_history", now |-> now, history |-> h]
    /\ UNCHANGED <<srs_config, now, card, before, score, user, cards, reviews, skipped,
                   tasks>>

NextStats ==
    \/ StatsTick
    \/ ApiStats
    \/ ReviewForecast
    \/ \E max_days \in ForecastLengths : ForecastQuery(max_days)
    \/ ApiRatingHistory

SpecStats == InitStats /\ [][NextStats]_vars

-----------------------------------------------------------------------------
(* Claims about the forecast and the rating history (SpecStats).           *)

\* C25 as stated: the forecast query gives every card the day index
\* floor((due - day_end) / 24h), before the day end as after it: each card
\* whose floor is below max_days is counted in the row of that index, with
\* the other cards of the same floor and no others.
C25_DayIndexIsFloor ==
    last.op = "forecast_query" =>
        \A c \in StoredCards(cards) :
            LET floor_c == DtSub(c.due, last.day_end) \div MsPerDay
                same == { x \in StoredCards(cards) :
                            DtSub(x.due, last.day_end) \div MsPerDay = floor_c }
            IN  floor_c < last.max_days =>
                    [day_due |-> floor_c, reviews_due |-> Cardinality(same)] \in last.rows

\* C24 as stated: the first entry of the review forecast is the
\* reviews_due_today of the stats of the same store and instant, and no card
\* is counted in more than one entry of the forecast.
C24_FirstBucketAndNoDoubleCount ==
    last.op = "review_forecast" =>
        /\ last.forecast[1] = GetUserStats(cards, srs_config, last.now).reviews_due_today
        /\ \A c \in StoredCards(cards) :
             Cardinality(ForecastEntriesOf(c, srs_config, last.now)) <= 1

-----------------------------------------------------------------------------
(* SpecFrame: every handler over the store, and what each may write.       *)

\* const MIN_LENGTH_DAYS, MAX_LENGTH_DAYS (api::user::review_forecast).
MIN_LENGTH_DAYS == 0
MAX_LENGTH_DAYS == 30

\* const MIN_BUCKET_SIZE (api::user::review_score_histogram).
MIN_BUCKET_SIZE == 50

\* The length_days and the bucket_size a request carries: the ends of the
\* accepted range and the values next to them.
RequestLengths == { MIN_LENGTH_DAYS - 1, MIN_LENGTH_DAYS, MAX_LENGTH_DAYS,
                    MAX_LENGTH_DAYS + 1 }
RequestBucketSizes == { MIN_BUCKET_SIZE - 1, MIN_BUCKET_SIZE }

\* The stored cards at the start: none, or the card of p1 as one review 20
\* minutes ago left it (its Review row not written: the card and the row are
\* written by separate statements).
FrameCards ==
    { [p \in RequestIds |-> NoCard],
      [p \in RequestIds |->
          IF p = "p1"
          THEN Review(NewCard("p1", [m |-> -20, ms |-> 0], DefaultSrsConfig),
                      [m |-> -20, ms |-> 0], "Good")
          ELSE NoCard] }

InitFrame ==
    /\ srs_config = DefaultSrsConfig
    /\ now = Midnight
    /\ card = NoCard
    /\ before = NoCard
    /\ score = NoScore
    /\ user = InitUser
    /\ cards \in FrameCards
    /\ reviews = <<>>
    /\ skipped = <<>>
    /\ last = NoRequest
    /\ tasks = NoTasks

\* GET /api/tactics/by_id/:puzzle_id (api::tactics::puzzle_by_id).
ApiPuzzleById(id) ==
    LET found == GetPuzzleAndCard(cards, id)
        c == IF found.card = NoCard THEN NewCard(id, now, srs_config) ELSE found.card
        seen == [op |-> "by_id", request |-> id]
    IN  /\ IF found.puzzle # NoPuzzleRow
           THEN last' = seen @@ [puzzle |-> found.puzzle.id, card |-> c,
                                 due_today |-> IsDue(c, now)]
           ELSE last' = seen @@ [puzzle |-> NoPuzzle, card |-> NoCard,
                                 due_today |-> FALSE]
        /\ UNCHANGED <<srs_config, now, card, before, score, user, cards, reviews,
                       skipped, tasks>>

\* GET /api/user/review_forecast/:length_days (api::user::review_forecast):
\* the range check and the kind of the answer.
ApiReviewForecast(length_days) ==
    /\ last' = [op |-> "review_forecast", request |-> length_days,
                response |-> IF length_days < MIN_LENGTH_DAYS
                                \/ length_days > MAX_LENGTH_DAYS
                             THEN "InvalidParameter"
                             ELSE "Ok"]
    /\ UNCHANGED <<srs_config, now, card, before, score, user, cards, reviews, skipped,
                   tasks>>

\* GET /api/user/review_score_histogram/:bucket_size
\* (api::user::review_score_histogram): the range check and the kind of the
\* answer.
ApiReviewScoreHistogram(bucket_size) ==
    /\ last' = [op |-> "review_score_histogram", request |-> bucket_size,
                response |-> IF bucket_size < MIN_BUCKET_SIZE
                             THEN "InvalidParameter"
                             ELSE "Ok"]
    /\ UNCHANGED <<srs_config, now, card, before, score, user, cards, reviews, skipped,
                   tasks>>

\* The requests that may write: a review graded Good or with a difficulty
\* that is no grade, a skip of p1 or p2 with update_rating and the same two
\* difficulties, and a random puzzle of any rating.
FrameReview ==
    \E id \in RequestIds, d \in {2, 4}, rc \in RequestCounts : ApiReview(id, d, rc)

FrameSkip ==
    \E id \in {"p1", "p2"}, d \in {2, 4} : ApiSkipNext(id, d, TRUE)

FrameRandom == ApiRandomPuzzle(0, 2000)

NextFrame ==
    \/ FrameReview
    \/ FrameSkip
    \/ FrameRandom
    \/ \E id \in RequestIds : ApiPuzzleById(id)
    \/ ApiNextReview
    \/ ApiStats
    \/ \E length_days \in RequestLengths : ApiReviewForecast(length_days)
    \/ \E bucket_size \in RequestBucketSizes : ApiReviewScoreHistogram(bucket_size)

SpecFrame == InitFrame /\ [][NextFrame]_vars

-----------------------------------------------------------------------------
(* Claims about what the handlers write (SpecFrame).                       *)

\* C27 as stated: a review or a skip with update_rating whose difficulty is
\* no grade, a review forecast whose length_days is outside [0, 30] and a
\* score histogram whose bucket_size is below 50 are answered
\* InvalidParameter with the user, the cards, the reviews and the skipped
\* puzzles as they were; length_days 0 and 30 and bucket_size 50 are
\* accepted.
C27_RejectedBeforeTheStore ==
    [][ LET op == last'.op
            out_of_range ==
                \/ /\ op = "review"
                   /\ DifficultyFromI64(last'.request.difficulty) = "Err"
                \/ /\ op = "skip"
                   /\ last'.request.update_rating
                   /\ DifficultyFromI64(last'.request.difficulty) = "Err"
                \/ /\ op = "review_forecast"
                   /\ (last'.request < 0 \/ last'.request > 30)
                \/ /\ op = "review_score_histogram"
                   /\ last'.request < 50
        IN  (last' # last
             /\ op \in {"review", "skip", "review_forecast", "review_score_histogram"}) =>
                /\ out_of_range =>
                      /\ last'.response = "InvalidParameter"
                      /\ UNCHANGED <<user, cards, reviews, skipped>>
                /\ (op = "review_forecast" /\ last'.request \in {0, 30}) =>
                      last'.response = "Ok"
                /\ (op = "review_score_histogram" /\ last'.request = 50) =>
                      last'.response = "Ok" ]_vars

\* C28: a step changes the cards table only when it is an applied review,
\* and then only the card of the reviewed puzzle: created, with review_count
\* 1, when the puzzle had none, and otherwise the same card with review_count
\* one higher; every other handler (by_id, random, next review, skip, stats,
\* forecast, histogram) leaves the table as it was, and no stored card is
\* ever removed, so the number of stored cards never goes down.
C28_CardsWrittenOnlyByReview ==
    [][ /\ \A p \in RequestIds : cards[p] # NoCard => cards'[p] # NoCard
        /\ GetCardCount(cards') >= GetCardCount(cards)
        /\ cards' # cards =>
              /\ last'.op = "review"
              /\ last'.response = "Ok"
              /\ last'.rated
        /\ (last' # last /\ last'.op = "review" /\ last'.rated) =>
              LET id == last'.request.id
              IN  /\ \A p \in RequestIds \ {id} : cards'[p] = cards[p]
                  /\ cards'[id] # NoCard
                  /\ cards'[id].id = id
                  /\ IF cards[id] = NoCard
                     THEN /\ cards'[id].review_count = 1
                          /\ GetCardCount(cards') = GetCardCount(cards) + 1
                     ELSE /\ cards'[id].review_count = cards[id].review_count + 1
                          /\ GetCardCount(cards') = GetCardCount(cards)
        /\ (last' # last /\ last'.op \in {"by_id", "random", "next_review", "skip", "stats",
                                           "review_forecast", "review_score_histogram"}) =>
              cards' = cards ]_vars

\* The card of p1 was reviewed a second time and a fresh card of p2 was
\* handed out without being stored: p1 is still the one stored card.
C28_Witness ==
    /\ last.op = "review"
    /\ last.rated
    /\ last.request.id = "p1"
    /\ cards["p1"] # NoCard
    /\ cards["p1"].review_count = 2
    /\ cards["p2"] = NoCard
    /\ user.next_puzzle = "p2"

-----------------------------------------------------------------------------
(* The learning state across reviews (SpecCard, SpecScenario).             *)

\* C31: a review graded Hard, Good or Easy of a card that is not in learning
\* leaves it not in learning with the learning_stage it had; a review graded
\* Again leaves it in learning at stage 0.
C31_MatureStaysMature ==
    (before # NoCard /\ ~InLearning(before)) =>
        IF score = "Again"
        THEN card.learning_stage = 0 /\ InLearning(card)
        ELSE /\ ~InLearning(card)
             /\ card.learning_stage = before.learning_stage

\* A card out of learning below the last stage (its interval is longer than
\* the step of its stage) was graded Hard and is still out of learning.
C31_Witness ==
    /\ before # NoCard
    /\ ~InLearning(before)
    /\ before.learning_stage < Len(INITIAL_INTERVALS)
    /\ score = "Hard"
    /\ ~InLearning(card)
    /\ card.review_count = 2

\* C32: after any sequence of reviews of a card made by Card::new the
\* learning_stage is within 0 .. |INITIAL_INTERVALS| and the interval is at
\* least INITIAL_INTERVALS[0], so the index in_learning reads, taken only
\* when learning_stage < |INITIAL_INTERVALS|, is inside INITIAL_INTERVALS.
C32_StageAndIntervalBounded ==
    (last.op = "scenario" /\ last.start = ScenarioFresh) =>
        /\ card.learning_stage \in 0 .. Len(INITIAL_INTERVALS)
        /\ card.interval >= INITIAL_INTERVALS[1]
        /\ card.learning_stage < Len(INITIAL_INTERVALS) =>
              (card.learning_stage + 1) \in DOMAIN INITIAL_INTERVALS

\* Three reviews of a new card that took it through both learning steps and
\* out of learning.
C32_Witness ==
    /\ last.op = "scenario"
    /\ last.start = ScenarioFresh
    /\ last.grades = <<"Hard", "Good", "Hard">>
    /\ card.learning_stage = Len(INITIAL_INTERVALS)
    /\ card.interval = INITIAL_INTERVALS[Len(INITIAL_INTERVALS)]

-----------------------------------------------------------------------------
(* SpecSample: the retry loop of TacticsService::get_random_puzzle, one    *)
(* attempt at a time; last holds the locals of the call.                   *)

\* The (min_rating, max_rating) of the call: windows holding no puzzle, one
\* puzzle and every puzzle, inside and across the ends of the corpus.
SampleWindows ==
    { <<0, 450>>, <<0, 2000>>, <<700, 800>>, <<500, 450>>, <<0, 100>>,
      <<MinPuzzleRating, MinPuzzleRating>>, <<MaxPuzzleRating, 3000>>,
      <<MinPuzzleRating + 1, MaxPuzzleRating - 1>> }

\* The stored card of a puzzle: none, one just reviewed, one reviewed twice.
SampleCards(id) ==
    { NoCard,
      Review(NewCard(id, Midnight, DefaultSrsConfig), Midnight, "Good"),
      Review(Review(NewCard(id, Midnight, DefaultSrsConfig), Midnight, "Good"),
             Midnight, "Easy") }

\* The call has clamped its window and is about to enter the loop.
InitSample ==
    /\ srs_config = DefaultSrsConfig
    /\ now = Midnight
    /\ card = NoCard
    /\ before = NoCard
    /\ score = NoScore
    /\ user = InitUser
    /\ \E c1 \in SampleCards("p1"), c2 \in SampleCards("p2") :
         cards = [p \in RequestIds |->
                     IF p = "p1" THEN c1 ELSE IF p = "p2" THEN c2 ELSE NoCard]
    /\ reviews = <<>>
    /\ skipped = <<>>
    /\ \E w \in SampleWindows :
         last = [op |-> "sample", request |-> w,
                 min_rating |-> Clamp(w[1], MinPuzzleRating, MaxPuzzleRating),
                 max_rating |-> Clamp(w[2], MinPuzzleRating, MaxPuzzleRating),
                 retry |-> 0, puzzle |-> NoPuzzleRow, card |-> NoCard, done |-> FALSE]
    /\ tasks = NoTasks

\* One pass of `for retry in 0..NEW_RETRY_COUNT`: a puzzle is sampled from
\* the window and its card read; the loop is left when no puzzle came, when
\* the puzzle has no card, or after the last pass.
SampleAttempt ==
    LET rows == GetPuzzlesByRating(last.min_rating, last.max_rating)
    IN  /\ last.op = "sample"
        /\ ~last.done
        /\ last.retry < NEW_RETRY_COUNT
        /\ IF rows = {}
           THEN last' = [last EXCEPT !.retry = @ + 1, !.puzzle = NoPuzzleRow,
                                     !.done = TRUE]
           ELSE \E p \in rows :
                    last' = [last EXCEPT !.retry = @ + 1, !.puzzle = p,
                                         !.card = cards[p.id],
                                         !.done = (cards[p.id] = NoCard
                                                   \/ last.retry + 1 >= NEW_RETRY_COUNT)]
        /\ UNCHANGED <<srs_config, now, card, before, score, user, cards, reviews,
                       skipped, tasks>>

NextSample == SampleAttempt

SpecSample == InitSample /\ [][NextSample]_vars

\* The scheduler runs the task to its end: an attempt that can be made is
\* made.
SpecSampleFair == SpecSample /\ WF_vars(SampleAttempt)

\* C33: get_random_puzzle makes at most NEW_RETRY_COUNT attempts and ends;
\* it goes on only after a puzzle that has a card, so it ends at the first
\* attempt when the window holds no puzzle and at the first puzzle without a
\* card, which it returns with no card, and otherwise returns the puzzle of
\* the last attempt with the card of that puzzle; a returned puzzle is rated
\* inside the requested window clamped to the ratings of the corpus; the
\* result is one GetRandomPuzzle gives.
C33_SamplingTerminates ==
    /\ <>(last.op = "sample" /\ last.done)
    /\ [](last.op = "sample" =>
            /\ last.retry <= NEW_RETRY_COUNT
            /\ (~last.done /\ last.retry > 0) =>
                  (last.puzzle # NoPuzzleRow /\ last.card # NoCard)
            /\ last.puzzle # NoPuzzleRow =>
                  /\ last.card = cards[last.puzzle.id]
                  /\ last.puzzle.rating >= Clamp(last.request[1], MinPuzzleRating,
                                                 MaxPuzzleRating)
                  /\ last.puzzle.rating <= Clamp(last.request[2], MinPuzzleRating,
                                                 MaxPuzzleRating)
            /\ last.done =>
                  /\ [puzzle |-> last.puzzle, card |-> last.card]
                        \in GetRandomPuzzle(cards, last.request[1], last.request[2])
                  /\ \/ last.puzzle = NoPuzzleRow /\ last.card = NoCard /\ last.retry = 1
                     \/ last.puzzle # NoPuzzleRow /\ last.card = NoCard
                     \/ last.puzzle # NoPuzzleRow /\ last.card # NoCard
                           /\ last.retry = NEW_RETRY_COUNT)

\* Five attempts that each sampled a puzzle with a card: the fifth puzzle is
\* returned with its card.
C33_Witness ==
    /\ last.op = "sample"
    /\ last.done
    /\ last.retry = NEW_RETRY_COUNT
    /\ last.puzzle # NoPuzzleRow
    /\ last.card # NoCard
    /\ last.card.id = last.puzzle.id

-----------------------------------------------------------------------------
(* SpecBackup: app::backup::run_backup, run again and again as the clock   *)
(* advances; last holds the configuration, the app_data row and what the   *)
(* last run did.                                                           *)

\* app_data.last_backup_date when no backup was recorded (None).
NoDate == [m |-> "none"]

\* The instants run_backup is called at: before the day end (04:00), at it,
\* half a second, a minute and hours after it, and around the next one.
BackupInstants ==
    { [m |-> 180, ms |-> 0], [m |-> 240, ms |-> 0], [m |-> 240, ms |-> 500],
      [m |-> 241, ms |-> 0], [m |-> 900, ms |-> 0],
      [m |-> MinutesPerDay + 239, ms |-> 0], [m |-> MinutesPerDay + 240, ms |-> 0],
      [m |-> MinutesPerDay + 300, ms |-> 0] }

\* The last_backup_date at the start: none, one of the day before the
\* running day and one of the running day.
BackupDates == { NoDate, [m |-> -1300, ms |-> 0], [m |-> -100, ms |-> 0] }

InitBackup ==
    /\ srs_config = DefaultSrsConfig
    /\ now = [m |-> 180, ms |-> 0]
    /\ card = NoCard
    /\ before = NoCard
    /\ score = NoScore
    /\ user = InitUser
    /\ cards = [p \in RequestIds |-> NoCard]
    /\ reviews = <<>>
    /\ skipped = <<>>
    /\ \E enabled \in BOOLEAN, date \in BackupDates :
         last = [op |-> "run_backup", enabled |-> enabled,
                 app_data |-> [last_backup_date |-> date], outcome |-> "none"]
    /\ tasks = NoTasks

\* Time passes.
BackupTick ==
    /\ \E t \in BackupInstants : DtLess(now, t) /\ now' = t
    /\ UNCHANGED <<srs_config, card, before, score>>
    /\ UNCHANGED StoreVars

\* run_backup, the test that ends it early: a last_backup_date later than
\* the day end before the running one.
BackupIsRecent(date, config, t) ==
    /\ date # NoDate
    /\ DtLess(DtAdd(DayEndDatetime(config, t), -MinutesPerDay), date)

\* run_backup with TP::now() == now.  backup_database and set_app_data may
\* each fail; a backup made whose date could not be stored is "unrecorded".
RunBackup ==
    /\ last.op = "run_backup"
    /\ IF ~last.enabled
       THEN last' = [last EXCEPT !.outcome = "disabled"]
       ELSE IF BackupIsRecent(last.app_data.last_backup_date, srs_config, now)
       THEN last' = [last EXCEPT !.outcome = "skipped"]
       ELSE \/ last' = [last EXCEPT !.outcome = "failed"]
            \/ last' = [last EXCEPT !.outcome = "unrecorded"]
            \/ last' = [last EXCEPT !.outcome = "backed_up",
                                    !.app_data.last_backup_date = now]
    /\ UNCHANGED <<srs_config, now, card, before, score, user, cards, reviews, skipped,
                   tasks>>

NextBackup ==
    \/ BackupTick
    \/ RunBackup

SpecBackup == InitBackup /\ [][NextBackup]_vars

\* C34 as stated: with backups enabled a run makes a backup only when no
\* date has been recorded since the day end before the running one (none, or
\* one earlier than it); a run before the next day end after the recorded
\* date makes none; a run that made a backup and recorded it stores the
\* instant of the run, and a failed one leaves the recorded date as it was.
C34_OneBackupPerDay ==
    [][ (last.op = "run_backup" /\ last'.op = "run_backup" /\ last.enabled /\ now' = now) =>
          LET date == last.app_data.last_backup_date
              made == last'.outcome \in {"backed_up", "unrecorded", "failed"}
              previous_day_end == DtAdd(DayEndDatetime(srs_config, now), -MinutesPerDay)
          IN  /\ (made /\ last' # last) =>
                    (date = NoDate \/ DtLess(date, previous_day_end))
              /\ (date # NoDate /\ DtLeq(date, now)
                  /\ DtLess(now, DayEndDatetime(srs_config, date))) =>
                    last'.outcome \in {"skipped", last.outcome}
              /\ last'.outcome = "backed_up" =>
                    last'.app_data.last_backup_date = now
              /\ last'.outcome # "backed_up" =>
                    last'.app_data = last.app_data ]_vars

-----------------------------------------------------------------------------
(* The review_count guard and the saved next puzzle (Spec).                *)

\* C35 as stated: a review request turned away by the review_count guard
\* (answered Ok, nothing rated) leaves the user row with its next_puzzle, the
\* cards, the reviews and the skipped puzzles all as they were.
C35_RejectedReviewChangesNothing ==
    [][ (/\ last'.op = "review"
         /\ now' = now
         /\ last'.response = "Ok"
         /\ ~last'.rated) =>
            UNCHANGED <<user, cards, reviews, skipped>> ]_vars

-----------------------------------------------------------------------------
(* Two review requests with the same review_count (SpecWrites).            *)

\* The handlers that passed the review_count test and have not yet written the
\* card: each holds the card it read and will rate the user, store the
\* reviewed card and append a Review row.
PassedGuard == { t \in TaskIds : tasks.run[t].pc \in {"rate", "upsert"} }

\* C36: two review requests for the same puzzle that carry the same
\* review_count are never both past the review_count test, so at most one of
\* them is applied.
C36_AtMostOneApplied ==
    \A t, u \in PassedGuard :
        (t # u /\ tasks.run[t].id = tasks.run[u].id) =>
            tasks.run[t].card.review_count # tasks.run[u].card.review_count

-----------------------------------------------------------------------------
(* get_next_review and the count of reviews due (SpecQueue).               *)

\* Every stored card references a row of the puzzles table.
EveryCardHasPuzzle ==
    \A id \in DOMAIN cards : cards[id] # NoCard => GetPuzzleById(id) # NoPuzzleRow

\* C37: when every stored card references an existing puzzle, get_next_review
\* returns a card exactly when reviews_due_by(now, day_end) counts more than
\* 0 cards; and it never returns a card whose puzzle row is missing.
C37_NextReviewIffDueCount ==
    (last.op = "next_review") =>
        /\ EveryCardHasPuzzle =>
              ((last.card # NoCard) <=>
                  ReviewsDueBy(cards, last.now, DayEndDatetime(srs_config, last.now)) > 0)
        /\ last.card # NoCard => GetPuzzleById(last.card.id) # NoPuzzleRow

\* One card is stored, of 24 hours or more and due later today: the count is
\* 1 and get_next_review returns the card ahead of its due time.
C37_Witness ==
    /\ last.op = "next_review"
    /\ EveryCardHasPuzzle
    /\ last.card # NoCard
    /\ SqlDatetime(last.card.due) > SqlDatetime(last.now)
    /\ ReviewsDueBy(cards, last.now, DayEndDatetime(srs_config, last.now)) = 1

-----------------------------------------------------------------------------
(* Skip requests that fail or are not for the saved puzzle (Spec).         *)

\* C38: a skip request answered with an error (update_rating set, difficulty
\* outside 0..3) appends no SkippedPuzzle row and leaves the rating and the
\* next_puzzle as they were; and a skip request whose id is not the stored
\* next_puzzle changes nothing in the store.
C38_FailedSkipChangesNothing ==
    [][ (last'.op = "skip" /\ now' = now) =>
            /\ last'.response # "Ok" =>
                  /\ skipped' = skipped
                  /\ user'.rating = user.rating
                  /\ user'.next_puzzle = user.next_puzzle
            /\ last'.request.id # user.next_puzzle =>
                  UNCHANGED <<user, cards, reviews, skipped>> ]_vars

-----------------------------------------------------------------------------
(* SpecImport: lichess::import_lichess_database, one pass of its loop per  *)
(* step.  tasks holds the importer's locals; last holds the file and the   *)
(* tables and app_data row it writes.                                      *)

\* Records in the file at most.
MaxRecords == 3

\* PUZZLES_PER_IMPORT_BATCH (10000 in the program), scaled to the files read.
ImportBatchSize == 2

\* A record of the wrong number of fields, one with no themes and one with a
\* theme (the themes field is read for the themes and for the openings).
RecordKinds == {"short", "plain", "themed"}

ImportFiles == UNION { [1..n -> RecordKinds] : n \in 0..MaxRecords }

\* The positions of the records of the file f among those in ps that are
\* puzzles, and those that name a theme.
ValidRecords(f, ps) == { i \in ps : f[i] # "short" }
ThemedRecords(f, ps) == { i \in ps : f[i] = "themed" }

InitImport ==
    /\ srs_config = DefaultSrsConfig
    /\ now = Midnight
    /\ card = NoCard
    /\ before = NoCard
    /\ score = NoScore
    /\ user = InitUser
    /\ cards = [p \in RequestIds |-> NoCard]
    /\ reviews = <<>>
    /\ skipped = <<>>
    /\ \E f \in ImportFiles :
         last = [op |-> "import", file |-> f, puzzles |-> {}, puzzle_themes |-> {},
                 puzzle_openings |-> {},
                 app_data |-> [lichess_db_imported |-> FALSE]]
    /\ tasks = [pc |-> "loop", read |-> 0, puzzles |-> {}, puzzle_themes |-> {},
                puzzle_openings |-> {}]

\* One pass of the loop: a record is read; one of the wrong length is passed
\* over, another is pushed with its themes and openings, and a full batch is
\* written with add_puzzles, add_puzzle_themes and add_puzzle_openings.
ImportRecord ==
    LET i == tasks.read + 1
        kind == last.file[i]
        puzzles == tasks.puzzles \cup {i}
        named == IF kind = "themed" THEN {i} ELSE {}
        puzzle_themes == tasks.puzzle_themes \cup named
        puzzle_openings == tasks.puzzle_openings \cup named
    IN  /\ tasks.pc = "loop"
        /\ tasks.read < Len(last.file)
        /\ IF kind = "short"
           THEN /\ tasks' = [tasks EXCEPT !.read = i]
                /\ last' = last
           ELSE IF Cardinality(puzzles) < ImportBatchSize
           THEN /\ tasks' = [tasks EXCEPT !.read = i, !.puzzles = puzzles,
                                          !.puzzle_themes = puzzle_themes,
                                          !.puzzle_openings = puzzle_openings]
                /\ last' = last
           ELSE \/ /\ tasks' = [tasks EXCEPT !.read = i, !.puzzles = {},
                                             !.puzzle_themes = {}, !.puzzle_openings = {}]
                   /\ last' = [last EXCEPT !.puzzles = @ \cup puzzles,
                                           !.puzzle_themes = @ \cup puzzle_themes,
                                           !.puzzle_openings = @ \cup puzzle_openings]
                \* add_puzzle_themes fails, or add_puzzle_openings does.
                \/ /\ tasks' = [tasks EXCEPT !.pc = "failed", !.read = i,
                                             !.puzzles = puzzles,
                                             !.puzzle_themes = puzzle_themes,
                                             !.puzzle_openings = puzzle_openings]
                   /\ \/ last' = [last EXCEPT !.puzzles = @ \cup puzzles]
                      \/ last' = [last EXCEPT !.puzzles = @ \cup puzzles,
                                              !.puzzle_themes = @ \cup puzzle_themes]
        /\ UNCHANGED <<srs_config, now, card, before, score, user, cards, reviews, skipped>>

\* After the loop: the last batch is written and the flag is set.
ImportFinish ==
    /\ tasks.pc = "loop"
    /\ tasks.read = Len(last.file)
    /\ \/ /\ tasks' = [tasks EXCEPT !.pc = "done", !.puzzles = {}]
          /\ last' = [last EXCEPT !.puzzles = @ \cup tasks.puzzles,
                                  !.app_data.lichess_db_imported = TRUE]
       \* get_app_data or set_app_data fails.
       \/ /\ tasks' = [tasks EXCEPT !.pc = "failed", !.puzzles = {}]
          /\ last' = [last EXCEPT !.puzzles = @ \cup tasks.puzzles]
    /\ UNCHANGED <<srs_config, now, card, before, score, user, cards, reviews, skipped>>

\* A read, a parse or the first statement of a pass fails: the `?` returns
\* the error with what was written before it.
ImportFails ==
    /\ tasks.pc = "loop"
    /\ tasks' = [tasks EXCEPT !.pc = "failed"]
    /\ UNCHANGED <<srs_config, now, card, before, score, user, cards, reviews, skipped,
                   last>>

NextImport ==
    \/ ImportRecord
    \/ ImportFinish
    \/ ImportFails

SpecImport == InitImport /\ [][NextImport]_vars

\* C39: when the import has set lichess_db_imported, every valid record of
\* the file is in the puzzles table and every theme and opening named by one
\* is in the puzzle themes and puzzle openings tables, those of the last,
\* partial batch included; an import that failed leaves the flag false and
\* the batches written before the failure in the tables.
C39_ImportWritesEveryRecord ==
    LET all == DOMAIN last.file
        read == IF tasks.pc = "failed" /\ tasks.puzzles # {}
                THEN tasks.read - 1 ELSE tasks.read
        full == ImportBatchSize * (Cardinality(ValidRecords(last.file, 1..read))
                                      \div ImportBatchSize)
        batched == { i \in ValidRecords(last.file, all) :
                       Cardinality(ValidRecords(last.file, 1..i)) <= full }
    IN  /\ last.app_data.lichess_db_imported =>
              /\ last.puzzles = ValidRecords(last.file, all)
              /\ last.puzzle_themes = ThemedRecords(last.file, all)
              /\ last.puzzle_openings = ThemedRecords(last.file, all)
        /\ tasks.pc = "failed" =>
              /\ ~last.app_data.lichess_db_imported
              /\ batched \subseteq last.puzzles
              /\ ThemedRecords(last.file, batched) \subseteq last.puzzle_themes
              /\ ThemedRecords(last.file, batched) \subseteq last.puzzle_openings

-----------------------------------------------------------------------------
(* SpecLock: UserService::update_rating and reset_user_rating called       *)
(* concurrently, as the steps between their awaits: db.lock(),             *)
(* get_user_by_id, update_user.  tasks holds each call's position and the  *)
(* users row it read.                                                      *)

\* The calls: update_rating for a game against a puzzle, reset_user_rating.
RatingCalls ==
    { [fn |-> "update_rating", puzzle |-> p, difficulty |-> d] :
        p \in Puzzles, d \in Difficulty }
    \cup { [fn |-> "reset_user_rating", given |-> g] : g \in ResetRatings }

\* The tasks that hold the MutexGuard of db.
LockHolders == { t \in TaskIds : tasks.run[t].pc \in {"get_user", "update_user"} }

\* A faulty lock: every task that asks is given the guard.
DbLockIsFree_Always == TRUE

\* db.lock().await returns when no task holds the guard.
DbLockIsFree == LockHolders = {}

\* A call arrives and waits for the lock.
RatingCall(t, call) ==
    /\ tasks.run[t] = Idle
    /\ tasks.received < MaxRequests
    /\ tasks' = [tasks EXCEPT !.received = @ + 1,
                              !.run[t] = [pc |-> "lock", call |-> call]]
    /\ UNCHANGED <<srs_config, now, card, before, score, user, cards, reviews, skipped,
                   last>>

\* let mut db = self.db.lock().await.
RatingLock(t) ==
    /\ tasks.run[t].pc = "lock"
    /\ DbLockIsFree
    /\ TaskStep(t, [tasks.run[t] EXCEPT !.pc = "get_user"])
    /\ UNCHANGED <<srs_config, now, card, before, score, user, cards, reviews, skipped,
                   last>>

\* db.get_user_by_id(user_id).
RatingGetUser(t) ==
    /\ tasks.run[t].pc = "get_user"
    /\ TaskStep(t, [pc |-> "update_user", call |-> tasks.run[t].call, user |-> user])
    /\ UNCHANGED <<srs_config, now, card, before, score, user, cards, reviews, skipped,
                   last>>

\* The rating is computed from the row read and db.update_user writes it
\* (update_rating: when the test passes); the call returns and the guard is
\* dropped.
RatingUpdateUser(t) ==
    LET task == tasks.run[t]
        call == task.call
    IN  /\ task.pc = "update_user"
        /\ IF call.fn = "reset_user_rating"
           THEN /\ user' = UpdateUser(user, [task.user EXCEPT !.rating = call.given])
                /\ last' = [op |-> call.fn, old |-> task.user.rating,
                            stored |-> user.rating, computed |-> call.given,
                            written |-> TRUE]
           ELSE \E computed \in RatingUpdate(task.user.rating,
                                            GameResult(call.puzzle, call.difficulty)) :
                  LET written == RatingIsWritten(call.difficulty, computed,
                                                 task.user.rating)
                  IN  /\ user' = IF written
                                 THEN UpdateUser(user, [task.user EXCEPT !.rating = computed])
                                 ELSE user
                      /\ last' = [op |-> call.fn, old |-> task.user.rating,
                                  stored |-> user.rating, computed |-> computed,
                                  written |-> written]
        /\ TaskStep(t, Idle)
        /\ UNCHANGED <<srs_config, now, card, before, score, cards, reviews, skipped>>

NextLock ==
    \/ \E t \in TaskIds, call \in RatingCalls : RatingCall(t, call)
    \/ \E t \in TaskIds : RatingLock(t)
    \/ \E t \in TaskIds : RatingGetUser(t)
    \/ \E t \in TaskIds : RatingUpdateUser(t)

SpecLock == InitUserSpec /\ [][NextLock]_vars

\* C40: under every interleaving of concurrent update_rating and
\* reset_user_rating calls, a call that has read the users row still sees the
\* stored rating when it writes, and every write was computed from the rating
\* it replaced: the stored rating is the result of the calls applied one
\* after another in the order of their writes.
C40_RatingUpdatesAreSerial ==
    /\ \A t \in TaskIds :
          tasks.run[t].pc = "update_user" => tasks.run[t].user.rating = user.rating
    /\ last.op \in {"update_rating", "reset_user_rating"} => last.old = last.stored

\* One call holds the row it read while the other waits for the lock, after
\* an earlier call has changed the stored rating.
C40_Witness ==
    /\ \E t, u \in TaskIds :
          /\ tasks.run[t].pc = "update_user"
          /\ tasks.run[u].pc = "lock"
    /\ last.op \in {"update_rating", "reset_user_rating"}
    /\ last.written
    /\ user.rating # InitUser.rating

====
